---- MODULE Spec2Model ----
(***************************************************************************)
(* Model of bluesky/stack/stack.py, class Commandstack: the pending        *)
(* command queue (cmdstack), the scenario timeline (scentime, scencmd),    *)
(* the scenario loader (openfile, pcall), the scheduler tick (checkfile)   *)
(* and the dispatcher (process).                                           *)
(*                                                                         *)
(* Text is modelled by TLA+ strings, on which TLC evaluates Len, \o,       *)
(* SubSeq, Head and Tail character by character.  Times are floats in the  *)
(* source; here they are integers counting 1/Centi seconds.                *)
(***************************************************************************)
EXTENDS Integers, Sequences, FiniteSets, TLC

VARIABLES
    cmdstack,    \* self.cmdstack : list of raw command lines
    scentime,    \* self.scentime : list of trigger times
    scencmd,     \* self.scencmd  : list of command texts, parallel to scentime
    pc,          \* "idle", or "process" while process() runs its for-loop
    ip,          \* process(): number of cmdstack entries the for-loop has consumed
    n0,          \* process(): length of cmdstack when the pass began
    iv,          \* process(): the local variable i
    lastop,      \* the call that made the last step, its inputs and how it ended
    cur,         \* process(): what dispatching the current line did
    dispatched,  \* process(): the lines dispatched so far by the current pass
    tables,      \* self.cmddict, self.cmdsynon and self.extracmdrefs
    disk         \* the scenario file saveic wrote last (NoFile when none)

vars == <<cmdstack, scentime, scencmd, pc, ip, n0, iv, lastop, cur, dispatched,
          tables, disk>>

-----------------------------------------------------------------------------
(* Bounds of the model                                                     *)

MaxQueue    == 3   \* longest cmdstack explored
MaxTimeline == 3   \* longest scenario timeline explored
MaxFileLines == 2  \* longest scenario file explored
MaxSimt     == 1   \* largest simulated time (in seconds) passed to checkfile

Centi == 100       \* resolution of the float model: values count 1/100 s

-----------------------------------------------------------------------------
(* Python string primitives                                                *)

Ch(s, i) == SubSeq(s, i, i)

Whitespace == {" ", "\t", "\n", "\r"}

\* the one element of a singleton set: binds a value that is used more than once
The(S) == CHOOSE x \in S : TRUE

Least(I) == CHOOSE i \in I : \A j \in I : i <= j
Greatest(I) == CHOOSE i \in I : \A j \in I : i >= j

\* str.strip(): the text between the first and the last non-blank character
strip(s) ==
    LET I == {i \in 1..Len(s) : Ch(s, i) \notin Whitespace}
    IN  IF I = {} THEN "" ELSE SubSeq(s, Least(I), Greatest(I))

lstrip(s) ==
    LET I == {i \in 1..Len(s) : Ch(s, i) \notin Whitespace}
    IN  IF I = {} THEN "" ELSE SubSeq(s, Least(I), Len(s))

\* s[a:b] for 0 <= a, 0 <= b (Python slice, clipped to the string)
slice(s, a, b) ==
    LET hi == IF b > Len(s) THEN Len(s) ELSE b
    IN  IF a >= hi THEN "" ELSE SubSeq(s, a + 1, hi)

\* s[a:]
sliceFrom(s, a) == slice(s, a, Len(s))

\* s[a:-1]
sliceDropLast(s, a) == slice(s, a, IF Len(s) = 0 THEN 0 ELSE Len(s) - 1)

startswith(s, p) == Len(s) >= Len(p) /\ SubSeq(s, 1, Len(p)) = p

\* str.find(sub), sub not empty: 0-based index of the first occurrence, or -1
find(s, sub) ==
    LET I == {i \in 1..(Len(s) - Len(sub) + 1) : SubSeq(s, i, i + Len(sub) - 1) = sub}
    IN  IF I = {} THEN -1 ELSE Least(I) - 1

contains(s, sub) == find(s, sub) >= 0

\* str.split(c) for a separator c
RECURSIVE split(_, _)
split(s, c) ==
    LET k == find(s, c)
    IN  IF k < 0 THEN <<s>>
        ELSE <<slice(s, 0, k)>> \o split(sliceFrom(s, k + Len(c)), c)

\* str.replace(old, new), old not empty: non-overlapping, left to right
RECURSIVE replace(_, _, _)
replace(s, old, new) ==
    LET k == find(s, old)
    IN  IF k < 0 THEN s
        ELSE slice(s, 0, k) \o new \o replace(sliceFrom(s, k + Len(old)), old, new)

\* str.strip(chars) for a one-character argument
stripChar(s, c) ==
    LET I == {i \in 1..Len(s) : Ch(s, i) # c}
    IN  IF I = {} THEN "" ELSE SubSeq(s, Least(I), Greatest(I))

\* str.split() without argument: split on runs of whitespace
RECURSIVE wsplit(_)
wsplit(s) ==
    LET t == lstrip(s)
        W == {i \in 1..Len(t) : Ch(t, i) \in Whitespace}
        n == IF W = {} THEN Len(t) ELSE Least(W) - 1
    IN  IF Len(t) = 0 THEN <<>>
        ELSE <<slice(t, 0, n)>> \o wsplit(sliceFrom(t, n))

Lowercase == "abcdefghijklmnopqrstuvwxyz"
Uppercase == "ABCDEFGHIJKLMNOPQRSTUVWXYZ"

upperChar(c) ==
    LET k == find(Lowercase, c)
    IN  IF k < 0 THEN c ELSE Ch(Uppercase, k + 1)

lowerChar(c) ==
    LET k == find(Uppercase, c)
    IN  IF k < 0 THEN c ELSE Ch(Lowercase, k + 1)

\* str.upper(), character by character (halving keeps the evaluation shallow)
RECURSIVE upper(_)
upper(s) ==
    IF Len(s) = 0 THEN ""
    ELSE IF Len(s) = 1 THEN upperChar(s)
    ELSE upper(SubSeq(s, 1, Len(s) \div 2)) \o upper(SubSeq(s, Len(s) \div 2 + 1, Len(s)))

RECURSIVE lower(_)
lower(s) ==
    IF Len(s) = 0 THEN ""
    ELSE IF Len(s) = 1 THEN lowerChar(s)
    ELSE lower(SubSeq(s, 1, Len(s) \div 2)) \o lower(SubSeq(s, Len(s) \div 2 + 1, Len(s)))

Digits == "0123456789"

isdigit(s) ==
    /\ Len(s) > 0
    /\ \A i \in 1..Len(s) : find(Digits, Ch(s, i)) >= 0

\* value of a non-empty string of decimal digits
RECURSIVE digitsVal(_)
digitsVal(s) ==
    IF Len(s) = 0 THEN 0
    ELSE 10 * digitsVal(SubSeq(s, 1, Len(s) - 1)) + find(Digits, Ch(s, Len(s)))

unsigned(s) == IF Len(s) > 0 /\ Head(s) \in {"+", "-"} THEN Tail(s) ELSE s
signOf(s)   == IF Len(s) > 0 /\ Head(s) = "-" THEN -1 ELSE 1

\* int(s): surrounding whitespace and a sign are accepted; anything else
\* than decimal digits raises ValueError (ok = FALSE)
pyint(s) ==
    LET t == strip(s)
        u == unsigned(t)
    IN  IF isdigit(u) THEN [ok |-> TRUE, val |-> signOf(t) * digitsVal(u)]
        ELSE [ok |-> FALSE, val |-> 0]

\* float(s) for plain decimal literals "d", "d.", ".d", "d.d" with an
\* optional sign; the value is returned in units of 1/Centi, fraction digits
\* beyond the second are below the model's resolution
pyfloat(s) ==
    LET t  == strip(s)
        u  == unsigned(t)
        k  == find(u, ".")
        ip0 == IF k < 0 THEN u ELSE slice(u, 0, k)
        fp == IF k < 0 THEN "" ELSE sliceFrom(u, k + 1)
        okI == ip0 = "" \/ isdigit(ip0)
        okF == fp = "" \/ isdigit(fp)
        f2 == slice(fp \o "00", 0, 2)
    IN  IF okI /\ okF /\ (ip0 # "" \/ fp # "")
        THEN [ok |-> TRUE,
              val |-> signOf(t) * (Centi * digitsVal(ip0) + digitsVal(f2))]
        ELSE [ok |-> FALSE, val |-> 0]

-----------------------------------------------------------------------------
(* The scenario timeline                                                   *)

\* sorted(pairs, key=lambda pair: pair[0]): a stable sort on the trigger time.
\* insort puts p behind every element whose key is <= p's key.
RECURSIVE insortUnstable(_, _)
insortUnstable(sq, p) ==
    IF Len(sq) = 0 THEN <<p>>
    ELSE IF sq[Len(sq)][1] < p[1] THEN Append(sq, p)
    ELSE Append(insortUnstable(SubSeq(sq, 1, Len(sq) - 1), p), sq[Len(sq)])

RECURSIVE insort(_, _)
insort(sq, p) ==
    IF Len(sq) = 0 THEN <<p>>
    ELSE IF sq[Len(sq)][1] <= p[1] THEN Append(sq, p)
    ELSE Append(insort(SubSeq(sq, 1, Len(sq) - 1), p), sq[Len(sq)])

RECURSIVE sorted(_)
sorted(pairs) ==
    IF Len(pairs) = 0 THEN <<>>
    ELSE insort(sorted(SubSeq(pairs, 1, Len(pairs) - 1)), pairs[Len(pairs)])

\* zip(self.scentime, self.scencmd): pairs up to the shorter list
zip(ts, cs) ==
    LET n == IF Len(ts) < Len(cs) THEN Len(ts) ELSE Len(cs)
    IN  [k \in 1..n |-> <<ts[k], cs[k]>>]

stackInFront(q, cmdline) ==
    LET c == strip(cmdline)
    IN  IF Len(c) > 0 THEN split(c, ";") \o q ELSE q

\* stack(cmdline), as a function of the queue it appends to
stack(q, cmdline) ==
    LET c == strip(cmdline)
    IN  IF Len(c) > 0 THEN q \o split(c, ";") ELSE q

\* openfile, lines 313-318: drop short lines and lines starting with '#'
keepLine(l) == ~(Len(strip(l)) <= 12 \/ Ch(l, 1) = "#")

\* openfile, lines 340-348: one scenario line -> (time, command), or the
\* exception that makes openfile ignore the line
parseLine(line, t_offset) ==
    LET icmdline == find(line, ">")
        tstamp   == slice(line, 0, icmdline)
        ttxt     == split(strip(tstamp), ":")
        ihr      == pyint(ttxt[1])
        imin     == pyint(ttxt[2])
        xsec     == pyfloat(ttxt[3])
    IN  IF icmdline < 0 THEN [ok |-> FALSE, time |-> 0, cmd |-> ""]
        ELSE IF Len(ttxt) < 3 \/ ~ihr.ok \/ ~imin.ok
        THEN [ok |-> FALSE, time |-> 0, cmd |-> ""]
        ELSE IF ~xsec.ok THEN [ok |-> FALSE, time |-> 0, cmd |-> ""]
        ELSE [ok   |-> TRUE,
              time |-> ihr.val * 3600 * Centi + imin.val * 60 * Centi
                         + xsec.val + t_offset,
              cmd  |-> sliceDropLast(line, icmdline + 1)]

\* openfile, lines 337-351: append the accepted lines to the two lists
RECURSIVE parseLines(_, _, _, _)
parseLines(ts, cs, scenlines, t_offset) ==
    IF Len(scenlines) = 0 THEN [scentime |-> ts, scencmd |-> cs]
    ELSE LET line == Head(scenlines)
             p    == parseLine(line, t_offset)
         IN  IF Ch(strip(line), 1) # "#" /\ p.ok
             THEN parseLines(Append(ts, p.time), Append(cs, p.cmd),
                             Tail(scenlines), t_offset)
             ELSE parseLines(ts, cs, Tail(scenlines), t_offset)

NoFile == <<"<no such file>">>

\* a name that resolves to a path that exists but that open() cannot read
\* (a directory, a file without read permission): open() raises IOError
Unreadable == <<"<unreadable file>">>

\* openfile, lines 310-351 on a file that exists: the (time, command)
\* entries the file contributes, in file order
parseFile(file, t_offset) ==
    parseLines(<<>>, <<>>, SelectSeq(file, keepLine), t_offset)

\* lines of scenario files
ScenLines ==
    { "00:00:00.00>OP\n",
      "00:00:01.00>HOLD\n",
      "00:00:01.00>OP\n" }

RECURSIVE SeqsUpTo(_, _)
SeqsUpTo(S, n) ==
    IF n = 0 THEN {<<>>}
    ELSE LET R == SeqsUpTo(S, n - 1)
         IN  R \cup {Append(sq, x) : sq \in {r \in R : Len(r) = n - 1}, x \in S}

Files == SeqsUpTo(ScenLines, MaxFileLines)

\* the scenario files of the whole-interpreter specification: one whose
\* first line lacks the '>' and whose entries are out of order, and a
\* name that denotes no file
FewFiles == { <<"00:00:01.00 HOLD\n", "00:00:01.00>HOLD\n", "00:00:00.00>OP\n">>,
              NoFile }

\* scenario files with lines of every kind: a comment, a line that is too
\* short, a line without the '>', a time that does not parse, a command
\* holding a second '>', a comment behind blanks, a time of two fields, a
\* last line without its newline, and a file without any accepted line
RichFiles ==
    { <<"# scenario file\n", "00:00:00.00>OP\n", "0:0:1>HOLD\n">>,
      <<"00:00:01.00 HOLD now\n", "00:00:01.00>HOLD\n">>,
      <<"aa:00:00.00>OP\n", "00:00:02.50>ECHO a>b\n">>,
      <<"00:01:00.00>OP\n", "00:00:00.00>HOLD">>,
      <<"  # 00:00:00.00>OP\n", "00:00>HOLD xxxxxx\n", "01:00:00.00>OP\n">>,
      <<"# nothing to play\n", "00:00:01.00 HOLD now\n">> }

Offsets == {0, Centi}

\* repr() of a float that holds a whole number
repr(x) == ToString(x) \o ".0"

absval(x) == IF x < 0 THEN 0 - x ELSE x

\* one vehicle of the roster saveic exports, in the units of the file:
\* degrees, feet, knots and feet per minute
Vehicle(id, type) ==
    [id |-> id, type |-> type, lat |-> 52, lon |-> 4, trk |-> 90, alt |-> 10000,
     cas |-> 250, vs |-> 0, avs |-> 0, aalt |-> 10000, ahdg |-> 90, aspd |-> 250,
     dest |-> "", orig |-> ""]

\* the rosters of the model: none, one and two vehicles, with each of the
\* follow-up lines
Rosters ==
    { <<>>,
      <<[Vehicle("KL1", "B744") EXCEPT !.vs = -1500]>>,
      <<[Vehicle("SYMBOL", "A320") EXCEPT !.ahdg = 270, !.aspd = 280]>>,
      <<[Vehicle("KL1", "B744") EXCEPT !.aalt = 9000], Vehicle("SYMBOL", "A320")>>,
      <<Vehicle("SYMBOL", "A320"), [Vehicle("KL1", "B744") EXCEPT !.dest = "EHAM"]>>,
      <<[Vehicle("KL1", "B744") EXCEPT !.vs = 20, !.avs = 1000, !.orig = "EHGG"]>> }

\* the names saveic is given: without and with a path
SaveNames == {"ic", "out/ic.scn"}

\* lines 392-442 with the follow-up lines written first
saveLinesCreLast(v) ==
    LET timtxt == "00:00:00.00>"
        wr(cmdline) == <<timtxt \o cmdline \o "\r\n">>
    IN  (IF absval(v.vs) >= 10
         THEN wr("VS " \o v.id \o "," \o repr(IF absval(v.avs) >= 10 THEN v.avs ELSE v.vs))
         ELSE <<>>)
        \o (IF absval(v.alt - v.aalt) >= 33
            THEN wr("ALT " \o v.id \o "," \o repr(v.aalt)) ELSE <<>>)
        \o (IF absval(((v.trk - v.ahdg + 180) % 360) - 180) >= 1
            THEN wr("HDG " \o v.id \o "," \o repr(v.ahdg)) ELSE <<>>)
        \o (IF absval(v.aspd - v.cas) >= 1
            THEN wr("SPD " \o v.id \o "," \o repr(v.aspd)) ELSE <<>>)
        \o (IF v.dest # "" THEN wr("DEST " \o v.id \o "," \o v.dest) ELSE <<>>)
        \o (IF v.orig # "" THEN wr("ORIG " \o v.id \o "," \o v.orig) ELSE <<>>)
        \o wr("CRE " \o v.id \o "," \o v.type \o "," \o repr(v.lat) \o "," \o repr(v.lon)
              \o "," \o repr(v.trk) \o "," \o repr(v.alt) \o "," \o repr(v.cas))

\* lines 392-442: the lines saveic writes for one vehicle, each closed by
\* chr(13) + chr(10). The dead bands of 0.05 m/s, 10 m, 0.5 deg and 0.4 m/s
\* are 10 fpm, 33 ft, 1 deg and 1 kt in the whole units of the roster
saveLines(v) ==
    LET timtxt == "00:00:00.00>"
        wr(cmdline) == <<timtxt \o cmdline \o "\r\n">>
    IN  wr("CRE " \o v.id \o "," \o v.type \o "," \o repr(v.lat) \o "," \o repr(v.lon)
           \o "," \o repr(v.trk) \o "," \o repr(v.alt) \o "," \o repr(v.cas))
        \o (IF absval(v.vs) >= 10
            THEN wr("VS " \o v.id \o "," \o repr(IF absval(v.avs) >= 10 THEN v.avs ELSE v.vs))
            ELSE <<>>)
        \o (IF absval(v.alt - v.aalt) >= 33
            THEN wr("ALT " \o v.id \o "," \o repr(v.aalt)) ELSE <<>>)
        \o (IF absval(((v.trk - v.ahdg + 180) % 360) - 180) >= 1
            THEN wr("HDG " \o v.id \o "," \o repr(v.ahdg)) ELSE <<>>)
        \o (IF absval(v.aspd - v.cas) >= 1
            THEN wr("SPD " \o v.id \o "," \o repr(v.aspd)) ELSE <<>>)
        \o (IF v.dest # "" THEN wr("DEST " \o v.id \o "," \o v.dest) ELSE <<>>)
        \o (IF v.orig # "" THEN wr("ORIG " \o v.id \o "," \o v.orig) ELSE <<>>)

RECURSIVE saveAll(_)
saveAll(traf) ==
    IF traf = <<>> THEN <<>> ELSE saveLines(Head(traf)) \o saveAll(Tail(traf))

\* lines 377-383: the extension is added unless the name holds ".scn" or
\* starts with ".SCN"; a name without a path goes to ./scenario in lower
\* case, a name with a path leaves scenfile unbound
scenfile(fname) ==
    LET named == IF find(fname, ".scn") < 0 /\ find(fname, ".SCN") # 0
                 THEN fname \o ".scn" ELSE fname
    IN  IF find(named, "/") < 0 THEN "./scenario/" \o lower(named) ELSE ""

\* saveic(fname, sim, traf), lines 375-446: -1 when open() fails and for a
\* name with a path (scenfile is then unbound and the NameError is caught
\* by the same except clause); else the file is written and 0 returned
saveic(fname, traf, writable) ==
    IF scenfile(fname) = "" \/ ~writable
    THEN [ret |-> 0 - 1, file |-> NoFile]
    ELSE [ret |-> 0, file |-> saveAll(traf)]

\* the files saveic writes for the rosters of the model
SavedFiles == {saveAll(traf) : traf \in Rosters}

\* parseFile, tabulated for the files and offsets of the model
Parsed == [file \in (Files \cup FewFiles \cup RichFiles \cup SavedFiles) \ {NoFile},
           t_offset \in Offsets |->
              parseFile(file, t_offset)]

\* openfile that does not clear the two lists before a replacing load
openfileKeepsOld(ts, cs, file, t_offset, mergeWithExisting) ==
    IF file = NoFile
    THEN [scentime |-> ts, scencmd |-> cs, exit |-> "return"]
    ELSE IF file = Unreadable
    THEN [scentime |-> ts, scencmd |-> cs, exit |-> "raise"]
    ELSE IF ~mergeWithExisting
    THEN [scentime |-> ts \o Parsed[file, t_offset].scentime,
          scencmd  |-> cs \o Parsed[file, t_offset].scencmd,
          exit     |-> "return"]
    ELSE The({ IF Len(srt) = 0
               THEN [scentime |-> ts, scencmd |-> cs, exit |-> "raise"]
               ELSE [scentime |-> [k \in 1..Len(srt) |-> srt[k][1]],
                     scencmd  |-> [k \in 1..Len(srt) |-> srt[k][2]],
                     exit     |-> "return"] :
               srt \in {sorted(zip(ts \o Parsed[file, t_offset].scentime,
                                   cs \o Parsed[file, t_offset].scencmd))} })

\* openfile(scenname, t_offset, mergeWithExisting) on the lists ts, cs;
\* file is what readlines() returns for the resolved name, or NoFile.
\* exit "raise": the unpacking of zip of the sorted pairs fails on an empty list
openfile(ts, cs, file, t_offset, mergeWithExisting) ==
    IF file = NoFile
    THEN [scentime |-> ts, scencmd |-> cs, exit |-> "return"]
    ELSE IF file = Unreadable
    THEN [scentime |-> ts, scencmd |-> cs, exit |-> "raise"]
    ELSE IF ~mergeWithExisting
    THEN [scentime |-> Parsed[file, t_offset].scentime,
          scencmd  |-> Parsed[file, t_offset].scencmd,
          exit     |-> "return"]
    ELSE The({ IF Len(srt) = 0
               THEN [scentime |-> ts, scencmd |-> cs, exit |-> "raise"]
               ELSE [scentime |-> [k \in 1..Len(srt) |-> srt[k][1]],
                     scencmd  |-> [k \in 1..Len(srt) |-> srt[k][2]],
                     exit     |-> "return"] :
               srt \in {sorted(zip(ts \o Parsed[file, t_offset].scentime,
                                   cs \o Parsed[file, t_offset].scencmd))} })

\* a release that deletes the command of a due entry and keeps its time
RECURSIVE checkfileKeepsTimes(_, _, _, _)
checkfileKeepsTimes(q, ts, cs, simt) ==
    IF Len(cs) > 0 /\ simt >= ts[1]
    THEN LET r == checkfileKeepsTimes(stack(q, cs[1]), ts, Tail(cs), simt)
         IN  [r EXCEPT !.released = <<ts[1]>> \o @]
    ELSE [cmdstack |-> q, scentime |-> ts, scencmd |-> cs, released |-> <<>>]

\* checkfile(simt): release the leading entries that are due
RECURSIVE checkfile(_, _, _, _)
checkfile(q, ts, cs, simt) ==
    IF Len(cs) > 0 /\ simt >= ts[1]
    THEN LET r == checkfile(stack(q, cs[1]), Tail(ts), Tail(cs), simt)
         IN  [r EXCEPT !.released = <<ts[1]>> \o @]
    ELSE [cmdstack |-> q, scentime |-> ts, scencmd |-> cs, released |-> <<>>]

-----------------------------------------------------------------------------------------------------------------------------------------------------
(* The registries built by __init__                                        *)

\* self.cmddict: name -> <<helptext, argtypelist, function>>
cmddict ==
    [ ADDNODES |-> <<"ADDNODES number", "int", "sim.addNodes">>,
      ALT      |-> <<"ALT acid, alt, [vspd]", "acid,alt,[vspd]", "traf.selalt">>,
      BATCH    |-> <<"BATCH filename", "txt", "sim.batch">>,
      CRE      |-> <<"CRE acid,type,lat,lon,hdg,alt,spd",
                     "txt,txt,lat,lon,hdg,alt,spd", "traf.create">>,
      DATAFEED |-> <<"DATAFEED [ON/OFF]", "[onoff]", "sim.datafeed">>,
      DT       |-> <<"DT dt", "float", "sim.setDt">>,
      DTMULT   |-> <<"DTMULT multiplier", "float", "sim.setDtMultiplier">>,
      ECHO     |-> <<"ECHO txt", "txt", "scr.echo">>,
      ENG      |-> <<"ENG acid,[engine_id]", "acid,[txt]", "traf.perf.engchange">>,
      FF       |-> <<"FF [tend]", "[time]", "sim.fastforward">>,
      FIXDT    |-> <<"FIXDT ON/OFF [tend]", "onoff,[time]", "sim.setFixdt">>,
      HDG      |-> <<"HDG acid,hdg (deg,True)", "acid,float", "traf.selhdg">>,
      HELP     |-> <<"HELP [command]", "[txt]", "self.help">>,
      HOLD     |-> <<"HOLD", "", "sim.pause">>,
      INSEDIT  |-> <<"INSEDIT txt", "txt", "scr.cmdline">>,
      LOG      |-> <<"LOG acid/area/*,dt", "txt,float", "sim.datalog.start">>,
      MCRE     |-> <<"MCRE n, [type/*, alt/*, spd/*, dest/*]",
                     "int,[txt,alt,spd,txt]", "traf.mcreate">>,
      MOVE     |-> <<"MOVE acid,lat,lon,[alt,hdg,spd,vspd]",
                     "acid,lat,lon,[alt,hdg,spd,vspd]", "traf.move">>,
      ND       |-> <<"ND acid", "txt", "scr.feature">>,
      NOISE    |-> <<"NOISE [ON/OFF]", "[onoff]", "traf.setNoise">>,
      NOM      |-> <<"NOM acid", "acid", "traf.nom">>,
      OP       |-> <<"OP", "", "sim.start">>,
      PCALL    |-> <<"PCALL filename [REL/ABS]", "txt,[txt]", "self.pcall">>,
      RESET    |-> <<"RESET", "", "sim.reset">>,
      SCEN     |-> <<"SCEN scenname", "txt", "sim.scenarioInit">>,
      SEED     |-> <<"SEED value", "int", "self.setSeed">>,
      SPD      |-> <<"SPD acid,spd (CAS-kts/Mach)", "acid,spd", "traf.selspd">>,
      SSD      |-> <<"SSD acid/ALL/OFF", "txt", "scr.showssd">>,
      STOP     |-> <<"STOP", "", "sim.stop">>,
      SYMBOL   |-> <<"SYMBOL", "", "scr.symbol">>,
      VS       |-> <<"VS acid,vspd (ft/min)", "acid,vspd", "traf.selvspd">> ]

\* the synonym table with an alias of an alias
cmdsynonChained ==
    ("CONTINUE" :> "OP") @@ ("CREATE" :> "CRE") @@ ("DTLOOK" :> "ASA_DTLOOK") @@
    ("END" :> "STOP") @@ ("EXIT" :> "STOP") @@ ("FWD" :> "FF") @@
    ("PAUSE" :> "HOLD") @@ ("Q" :> "STOP") @@ ("QUIT" :> "STOP") @@
    ("RUN" :> "OP") @@ ("START" :> "RUN") @@ ("TURN" :> "HDG") @@ ("?" :> "HELP")

\* self.cmdsynon: alias -> name
cmdsynon ==
    ("CONTINUE" :> "OP") @@ ("CREATE" :> "CRE") @@ ("DTLOOK" :> "ASA_DTLOOK") @@
    ("END" :> "STOP") @@ ("EXIT" :> "STOP") @@ ("FWD" :> "FF") @@
    ("PAUSE" :> "HOLD") @@ ("Q" :> "STOP") @@ ("QUIT" :> "STOP") @@
    ("RUN" :> "OP") @@ ("START" :> "OP") @@ ("TURN" :> "HDG") @@ ("?" :> "HELP")

\* self.extracmdrefs: the four-character prefixes of the extension modules
extracmdrefs == {"SYN_", "ASA_"}

-----------------------------------------------------------------------------
(* Collaborators of process(): the traffic roster and the text tools       *)

\* traf.id: the identifiers of the vehicles in the simulation
trafid == <<"KL1", "Q", "SYMBOL">>

\* traf.id2idx(acid): index of the identifier, -1 when absent
id2idx(acid) ==
    IF \E k \in 1..Len(trafid) : trafid[k] = acid
    THEN (CHOOSE k \in 1..Len(trafid) : trafid[k] = acid) - 1
    ELSE -1

\* cmdsplit, step 1: mark empty arguments, ",," -> ",@," until none is left
RECURSIVE markEmpty(_)
markEmpty(s) == IF contains(s, ",,") THEN markEmpty(replace(s, ",,", ",@,")) ELSE s
\* the words of a command line, the marker of an empty argument removed
unmark(words) == [k \in 1..Len(words) |-> IF words[k] = "@" THEN "" ELSE words[k]]

\* cmdsplit(cmdline, trafids): command name and argument tokens; commas and
\* blanks separate, an identifier typed before the command is swapped with it
cmdsplit(cmdline, trafids) ==
    The({ IF Len(cmdargs) = 0 THEN [cmd |-> "", args |-> <<>>]
          ELSE IF Len(cmdargs) > 1 /\ \E k \in 1..Len(trafids) : trafids[k] = cmdargs[1]
          THEN [cmd |-> cmdargs[2],
                args |-> <<cmdargs[1]>> \o SubSeq(cmdargs, 3, Len(cmdargs))]
          ELSE [cmd |-> Head(cmdargs), args |-> Tail(cmdargs)] :
          cmdargs \in {unmark(wsplit(replace(markEmpty(strip(cmdline)), ",", " ")))} })

-----------------------------------------------------------------------------
(* Argument coercion, process() lines 505-591                              *)

\* a Python value handed to a handler: None, a flag, a text or a number
\* (numbers in 1/Centi of the unit the tag names)
None        == [t |-> "None",  n |-> 0, s |-> ""]
Text(x)     == [t |-> "txt",   n |-> 0, s |-> x]
Num(tag, x) == [t |-> tag,     n |-> x, s |-> ""]
Flag(b)     == [t |-> "bool",  n |-> IF b THEN 1 ELSE 0, s |-> ""]

\* txt2lat / txt2lon: signed decimal degrees, or a hemisphere letter followed
\* by decimal degrees; ok = FALSE stands for the exception they raise
txt2lat(txt) ==
    LET u == upper(strip(txt))
        neg == startswith(u, "S")
        body == IF startswith(u, "N") \/ startswith(u, "S") THEN Tail(u) ELSE u
        f == pyfloat(body)
    IN  [ok |-> f.ok, val |-> IF neg THEN 0 - f.val ELSE f.val]

txt2lon(txt) ==
    LET u == upper(strip(txt))
        neg == startswith(u, "W")
        body == IF startswith(u, "E") \/ startswith(u, "W") THEN Tail(u) ELSE u
        f == pyfloat(body)
    IN  [ok |-> f.ok, val |-> IF neg THEN 0 - f.val ELSE f.val]

\* txt2alt: a flight level "FLnnn" (hundreds of feet) or plain feet
txt2alt(txt) ==
    LET u == upper(txt)
    IN  IF startswith(u, "FL") /\ Len(u) >= 4
        THEN LET k == pyint(sliceFrom(u, 2))
             IN  [ok |-> k.ok, val |-> 100 * Centi * k.val]
        ELSE pyfloat(txt)

\* the "time" tag, lines 577-585
txt2time(a) ==
    LET ttxt == split(strip(a), ":")
        ihr  == pyint(ttxt[1])
        imin == pyint(ttxt[2])
        xsec == pyfloat(ttxt[3])
    IN  IF Len(ttxt) >= 3
        THEN [ok  |-> ihr.ok /\ imin.ok /\ xsec.ok,
              val |-> ihr.val * 3600 * Centi + imin.val * 60 * Centi + xsec.val]
        ELSE pyfloat(a)

\* the local variable i of process(): unbound until a loop or an assignment
\* of an earlier line binds it
Unbound == [bound |-> FALSE, v |-> 0]
Bound(k) == [bound |-> TRUE, v |-> k]

\* the loop body without its first branch: '*' and '' go to the tag's branch
coerceNoWildcard(argtype, a) ==
    IF argtype = "acid"
    THEN IF id2idx(a) < 0 THEN [st |-> "notfound", v |-> None, lk |-> 1]
         ELSE [st |-> "val", v |-> Num("idx", id2idx(a)), lk |-> 1]
    ELSE IF argtype = "txt" THEN [st |-> "val", v |-> Text(a), lk |-> 0]
    ELSE IF argtype = "onoff" \/ argtype = "bool"
    THEN [st |-> "val", v |-> Flag(a = "ON" \/ a = "1" \/ a = "TRUE"), lk |-> 0]
    ELSE IF argtype = "lat" \/ argtype = "lon"
    THEN [st |-> "synerr", v |-> None, lk |-> 0]
    ELSE [st |-> "raise", v |-> None, lk |-> 0]

\* One pass of the loop body for token a declared as argtype:
\*   st = "val"      : v is appended to arglist
\*   st = "raise"    : the conversion raises, caught by the except at line 587
\*   st = "synerr"   : lat/lon failure: synerr is set, nothing is appended
\*   st = "notfound" : acid lookup failed: echo, synerr, break
\*   st = "nothing"  : no branch of the elif chain matches the tag
coerce(argtype, a) ==
    IF a = "" \/ a = "*" THEN [st |-> "val", v |-> None, lk |-> 0]
    ELSE IF argtype = "acid"
    THEN IF id2idx(a) < 0 THEN [st |-> "notfound", v |-> None, lk |-> 1]
         ELSE [st |-> "val", v |-> Num("idx", id2idx(a)), lk |-> 1]
    ELSE IF argtype = "txt" THEN [st |-> "val", v |-> Text(a), lk |-> 0]
    ELSE IF argtype = "float"
    THEN IF pyfloat(a).ok THEN [st |-> "val", v |-> Num("float", pyfloat(a).val), lk |-> 0]
         ELSE [st |-> "raise", v |-> None, lk |-> 0]
    ELSE IF argtype = "int"
    THEN IF pyint(a).ok THEN [st |-> "val", v |-> Num("int", pyint(a).val), lk |-> 0]
         ELSE [st |-> "raise", v |-> None, lk |-> 0]
    ELSE IF argtype = "onoff" \/ argtype = "bool"
    THEN [st |-> "val", v |-> Flag(a = "ON" \/ a = "1" \/ a = "TRUE"), lk |-> 0]
    ELSE IF argtype = "lat"
    THEN IF txt2lat(a).ok THEN [st |-> "val", v |-> Num("deg", txt2lat(a).val), lk |-> 0]
         ELSE [st |-> "synerr", v |-> None, lk |-> 0]
    ELSE IF argtype = "lon"
    THEN IF txt2lon(a).ok THEN [st |-> "val", v |-> Num("deg", txt2lon(a).val), lk |-> 0]
         ELSE [st |-> "synerr", v |-> None, lk |-> 0]
    ELSE IF argtype = "spd"
    THEN LET f == pyfloat(replace(replace(upper(a), "M", "."), "..", "."))
         IN  IF ~f.ok THEN [st |-> "raise", v |-> None, lk |-> 0]
             ELSE IF 10 * f.val > Centi /\ f.val < Centi
             THEN [st |-> "val", v |-> Num("mach", f.val), lk |-> 0]
             ELSE [st |-> "val", v |-> Num("kts", f.val), lk |-> 0]
    ELSE IF argtype = "vspd"
    THEN IF pyfloat(a).ok THEN [st |-> "val", v |-> Num("fpm", pyfloat(a).val), lk |-> 0]
         ELSE [st |-> "raise", v |-> None, lk |-> 0]
    ELSE IF argtype = "alt"
    THEN IF txt2alt(a).ok THEN [st |-> "val", v |-> Num("ft", txt2alt(a).val), lk |-> 0]
         ELSE [st |-> "raise", v |-> None, lk |-> 0]
    ELSE IF argtype = "hdg"
    THEN LET f == pyfloat(replace(replace(upper(a), "T", ""), "M", ""))
         IN  IF f.ok THEN [st |-> "val", v |-> Num("hdg", f.val), lk |-> 0]
             ELSE [st |-> "raise", v |-> None, lk |-> 0]
    ELSE IF argtype = "time"
    THEN IF txt2time(a).ok THEN [st |-> "val", v |-> Num("s", txt2time(a).val), lk |-> 0]
         ELSE [st |-> "raise", v |-> None, lk |-> 0]
    ELSE [st |-> "nothing", v |-> None, lk |-> 0]

\* the for-loop of lines 516-585 from index k on; acc carries arglist, synerr,
\* the echoes, the id2idx calls, the loop variable i and how the loop ended
\* ("done", "break" or "except")
RECURSIVE coerceLoop(_, _, _, _, _, _)
coerceLoop(cmd, argtypes, args, n, k, acc) ==
    IF k >= n THEN acc
    ELSE The({
         LET a1 == [acc EXCEPT !.i = Bound(k), !.lookups = @ + c.lk]
         IN  IF c.st = "val"
             THEN coerceLoop(cmd, argtypes, args, n, k + 1,
                             [a1 EXCEPT !.arglist = Append(@, c.v)])
             ELSE IF c.st = "notfound"
             THEN [a1 EXCEPT !.echoed = Append(@, cmd \o ":" \o args[k + 1] \o " not found"),
                             !.synerr = TRUE, !.end = "break"]
             ELSE IF c.st = "synerr"
             THEN coerceLoop(cmd, argtypes, args, n, k + 1, [a1 EXCEPT !.synerr = TRUE])
             ELSE IF c.st = "raise"
             THEN [a1 EXCEPT !.end = "except"]
             ELSE coerceLoop(cmd, argtypes, args, n, k + 1, a1) :
         c \in {coerce(strip(argtypes[k + 1]), args[k + 1])} })

\* lines 486-490 and 500-503: the declared type tags of a signature
mandatory(argtypelist) ==
    LET argvsopt == split(argtypelist, "[")
        argtypes == split(stripChar(argvsopt[1], ","), ",")
    IN  IF argtypes = <<"">> THEN <<>> ELSE argtypes

alltypes(argtypelist) ==
    LET argvsopt == split(argtypelist, "[")
    IN  IF Len(argvsopt) = 2
        THEN mandatory(argtypelist) \o split(stripChar(argvsopt[2], "]"), ",")
        ELSE mandatory(argtypelist)

-----------------------------------------------------------------------------
(* Handlers: what the handler call does                                  *)

\* what a handler returns: nothing, a flag, a 1-tuple or a (flag, message) pair
RNone        == [shape |-> "none",   flag |-> TRUE, msg |-> ""]
RBool(b)     == [shape |-> "bool",   flag |-> b,    msg |-> ""]
RTuple1(b)   == [shape |-> "tuple1", flag |-> b,    msg |-> ""]
RPair(b, m)  == [shape |-> "pair",   flag |-> b,    msg |-> m]
\* no handler has returned
NoResult     == [shape |-> "nocall", flag |-> TRUE, msg |-> ""]

\* help(cmd) for a given cmd, lines 266-269 (the listing of lines 255-265 is
\* not needed by any handler call: HELP always passes one text argument)
help(cmd) ==
    IF cmd \in DOMAIN cmddict THEN cmddict[cmd][1]
    ELSE "HELP: Unknown command: " \o cmd

\* help() without a command, lines 255-265: the listing of the keys of
\* cmddict in the order keys, in rows of at least 40 characters
RECURSIVE helpLoop(_, _, _)
helpLoop(keys, text, text2) ==
    IF keys = <<>> THEN [text |-> text, text2 |-> text2]
    ELSE The({ IF Len(t2) >= 40
               THEN helpLoop(Tail(keys), text \o t2 \o "\n", "")
               ELSE helpLoop(Tail(keys), text, t2) :
               t2 \in {text2 \o Head(keys) \o " "} })

\* the listing without the names that follow the last full row
helpAllDropsTail(keys) ==
    The({ r.text \o "\nSee Info subfolder for more info." :
          r \in {helpLoop(keys, "To get help on a command, enter it without arguments.\n"
                               \o "Some basic commands are given below:\n\n", "")} })

helpAll(keys) ==
    The({ r.text \o r.text2 \o "\nSee Info subfolder for more info." :
          r \in {helpLoop(keys, "To get help on a command, enter it without arguments.\n"
                               \o "Some basic commands are given below:\n\n", "")} })

\* the handlers defined in this file, and the number of positional
\* arguments each accepts: <<least, most>>
ownHandlers == {"self.pcall", "self.help", "self.setSeed", "scr.feature"}

ownArity(function) ==
    IF function = "self.pcall" THEN <<1, 2>>
    ELSE IF function = "self.help" THEN <<0, 1>>
    ELSE <<1, 1>>

\* pcall(filename, absrel): t_offset is self.sim.simt for 'REL', an attribute
\* this class never sets, and 0.0 otherwise
pcall(ts, cs, file, absrel) ==
    IF absrel = "REL"
    THEN [scentime |-> ts, scencmd |-> cs, exit |-> "raise"]
    ELSE openfile(ts, cs, file, 0, TRUE)

\* results = the handler call, line 597.  env is the environment's part:
\*   env.res    what an external handler returns
\*   env.app    the line an external handler stacks while it runs ("" for none)
\*   env.accept whether an external handler takes fewer positional arguments
\*              than the signature's mandatory ones (else TypeError)
\*   env.file   the scenario file a file name denotes when the call is made
call(function, arglist, nmandatory, tl, env) ==
    LET base == [st |-> "ok", res |-> RNone, echoed |-> <<>>, app |-> <<>>,
                 scentime |-> tl.scentime, scencmd |-> tl.scencmd]
    IN  IF function \in ownHandlers
        THEN IF Len(arglist) < ownArity(function)[1] \/ Len(arglist) > ownArity(function)[2]
             THEN [base EXCEPT !.st = "raise"]
             ELSE IF function = "self.pcall"
             THEN IF arglist[1].t # "txt" THEN [base EXCEPT !.st = "raise"]
                  ELSE The({ [base EXCEPT !.st = IF r.exit = "raise" THEN "raise" ELSE "ok",
                                          !.scentime = r.scentime, !.scencmd = r.scencmd] :
                             r \in {pcall(tl.scentime, tl.scencmd, env.file,
                                          IF Len(arglist) = 2 THEN arglist[2].s ELSE "ABS")} })
             ELSE IF function = "self.help"
             THEN IF Len(arglist) = 1 /\ arglist[1].t = "txt"
                  THEN [base EXCEPT !.echoed = <<help(arglist[1].s)>>, !.res = env.res]
                  ELSE [base EXCEPT !.st = "raise"]
             ELSE [base EXCEPT !.res = IF function = "self.setSeed" THEN RNone ELSE env.res]
        ELSE IF Len(arglist) < nmandatory /\ ~env.accept
        THEN [base EXCEPT !.st = "raise"]
        ELSE [base EXCEPT !.res = env.res,
                          !.echoed = IF function = "scr.echo" /\ Len(arglist) = 1
                                        /\ arglist[1].t = "txt"
                                     THEN <<arglist[1].s>> ELSE <<>>,
                          !.app = IF env.app = "" THEN <<>> ELSE <<env.app>>]

\* Python's args[i]: "raise" for an unbound i or an index out of range
argAt(args, i) ==
    IF ~i.bound THEN [ok |-> FALSE, v |-> ""]
    ELSE IF i.v >= 0 /\ i.v < Len(args) THEN [ok |-> TRUE, v |-> args[i.v + 1]]
    ELSE IF i.v < 0 /\ 0 - i.v <= Len(args) THEN [ok |-> TRUE, v |-> args[Len(args) + i.v + 1]]
    ELSE [ok |-> FALSE, v |-> ""]

\* lines 600-622: interpret what the handler returned
report(cmd, helptext, results, synerr, numargs, args, i) ==
    IF synerr
    THEN [st |-> "ok", echoed |-> <<"Syntax error: " \o helptext>>, synerr |-> TRUE]
    ELSE IF results.shape = "bool"
    THEN IF results.flag THEN [st |-> "ok", echoed |-> <<>>, synerr |-> FALSE]
         ELSE IF numargs <= 0
         THEN [st |-> "ok", echoed |-> <<helptext>>, synerr |-> FALSE]
         ELSE IF ~argAt(args, i).ok
         THEN [st |-> "raise", echoed |-> <<>>, synerr |-> TRUE]
         ELSE IF argAt(args, i).v = "?"
         THEN [st |-> "ok", echoed |-> <<helptext>>, synerr |-> FALSE]
         ELSE [st |-> "ok", echoed |-> <<"Syntax error: " \o helptext>>, synerr |-> FALSE]
    ELSE IF results.shape = "tuple1"
    THEN [st |-> "ok", echoed |-> <<>>, synerr |-> ~results.flag]
    ELSE IF results.shape = "pair"
    THEN [st |-> "ok", echoed |-> <<cmd \o ":" \o results.msg>>, synerr |-> FALSE]
    ELSE [st |-> "ok", echoed |-> <<>>, synerr |-> FALSE]

-----------------------------------------------------------------------------
(* process(): the body of the for-loop for one queued line                 *)

\* navigation database lookups used by PAN: waypoint and airport names
navdbwp == <<"SPY">>
navdbap == <<"EHAM">>

\* settings.start_location, the position __init__ pans to
start_location == "EHAM"

indexIn(names, x) ==
    IF \E k \in 1..Len(names) : names[k] = x
    THEN (CHOOSE k \in 1..Len(names) : names[k] = x) - 1
    ELSE -1

\* what dispatching one line does, given the timeline tl and the local i:
\*   stage   how far the line got: "resolve", "arity", "invoke", "report"
\*   errcode what saveic returned (None when it was not called)
\*   saved   the file saveic wrote (NoFile when it wrote none)
\*   exit    "next" (the loop goes on), "return" or "raise" (process() is left)
\*   echoed  the texts passed to scr.echo, in order
\*   called  the handler calls made, each with its argument list
\*   lookups the number of traf.id2idx calls
\*   coerce  how the coercion loop ended: "none" (not entered), "done",
\*           "break" (acid not found) or "except" (a conversion raised)
\*   app     the lines a handler stacked while it ran
\*   results what the handler returned (NoResult when none returned)
Outcome(cmd, tl, i) ==
    [kind |-> "line", cmd |-> cmd, stage |-> "resolve", exit |-> "next",
     echoed |-> <<>>, called |-> <<>>, lookups |-> 0, coerce |-> "none",
     app |-> <<>>, results |-> NoResult, scentime |-> tl.scentime, scencmd |-> tl.scencmd, i |-> i,
     errcode |-> None, saved |-> NoFile]

\* lines 592-595: the default syntax error message closing every branch
\* that falls through to the end of the loop body
closing(o, synerr, line) ==
    IF synerr
    THEN [o EXCEPT !.echoed = @ \o <<"Syntax error in command:" \o o.cmd, line>>]
    ELSE o

tooFewOffByOne(numargs, argtypelist) ==
    numargs + 1 < Len(mandatory(argtypelist))

\* line 493: fewer arguments than mandatory type tags
tooFewArguments(numargs, argtypelist) ==
    numargs < Len(mandatory(argtypelist))

\* the argument list filled up with None to the length of the signature
coercionPadsOptionals(cmd, line, args, i, argtypes) ==
    The({ IF loop.end = "done" /\ argtypes # <<"txt">>
          THEN [loop EXCEPT !.arglist =
                   @ \o [k \in 1..(Len(argtypes) - Len(@)) |-> None]]
          ELSE loop :
          loop \in {coerceLoop(cmd, argtypes, args,
                       IF Len(argtypes) < Len(args) THEN Len(argtypes) ELSE Len(args), 0,
                       [arglist |-> <<>>, synerr |-> FALSE, echoed |-> <<>>,
                        lookups |-> 0, i |-> i, end |-> "done"])} })

\* lines 505-585: the argument list built from the tokens; argtypes are
\* the declared type tags, mandatory and optional
coercion(cmd, line, args, i, argtypes) ==
    IF argtypes = <<"txt">>
    THEN [arglist |-> <<Text(sliceFrom(line, Len(cmd) + 1))>>,
          synerr |-> FALSE, echoed |-> <<>>, lookups |-> 0, i |-> i, end |-> "done"]
    ELSE coerceLoop(cmd, argtypes, args,
                    IF Len(argtypes) < Len(args) THEN Len(argtypes) ELSE Len(args), 0,
                    [arglist |-> <<>>, synerr |-> FALSE, echoed |-> <<>>,
                     lookups |-> 0, i |-> i, end |-> "done"])

\* lines 587-622 and 1592-1595: the except clause, the handler call and the
\* interpretation of its results, given what the coercion loop left
invoke(cmd, line, args, tl, env, loop) ==
    LET helptext == cmddict[cmd][1]
        synerr1  == IF loop.end = "except" THEN FALSE ELSE loop.synerr
        echoed1  == IF loop.end = "except"
                    THEN loop.echoed \o <<"Syntax error in processing arguments",
                                          line, helptext>>
                    ELSE loop.echoed
        o1       == [Outcome(cmd, tl, loop.i) EXCEPT
                        !.stage = "invoke", !.lookups = loop.lookups,
                        !.coerce = loop.end,
                        !.called = <<[function |-> cmddict[cmd][3],
                                      arglist |-> loop.arglist]>>]
    IN  The({
          IF h.st = "raise"
          THEN [o1 EXCEPT !.exit = "raise", !.echoed = echoed1,
                          !.scentime = h.scentime, !.scencmd = h.scencmd]
          ELSE The({
            IF rep.st = "raise"
            THEN [o1 EXCEPT !.exit = "raise", !.echoed = echoed1 \o h.echoed,
                            !.app = h.app, !.results = h.res, !.scentime = h.scentime,
                            !.scencmd = h.scencmd]
            ELSE closing([o1 EXCEPT !.stage = "report",
                                    !.echoed = echoed1 \o h.echoed \o rep.echoed,
                                    !.app = h.app, !.results = h.res,
                                    !.scentime = h.scentime, !.scencmd = h.scencmd],
                         rep.synerr, line) :
            rep \in {report(cmd, helptext, h.res, synerr1, Len(args), args, loop.i)} }) :
          h \in {call(cmddict[cmd][3], loop.arglist,
                      Len(mandatory(cmddict[cmd][2])), tl, env)} })

\* lines 485-622: a command found in cmddict
registered(cmd, line, args, tl, i, env) ==
    IF tooFewArguments(Len(args), cmddict[cmd][2])
    THEN [Outcome(cmd, tl, i) EXCEPT
             !.stage = "arity",
             !.echoed = <<"Syntax error: Too few arguments", line, cmddict[cmd][1]>>]
    ELSE The({ invoke(cmd, line, args, tl, env, loop) :
               loop \in {coercion(cmd, line, args, i, alltypes(cmddict[cmd][2]))} })

\* lines 627-667: POS, the traffic info of one vehicle (its type, position,
\* speed and route come from the traffic object)
pos(cmd, line, args, tl, i) ==
    LET o == Outcome(cmd, tl, i)
    IN  IF Len(args) >= 1
        THEN IF id2idx(args[1]) < 0
             THEN [o EXCEPT !.lookups = 1,
                            !.echoed = <<"POS: " \o args[1] \o " not found.">>]
             ELSE [o EXCEPT !.lookups = 1, !.echoed = <<"Info on " \o args[1]>>]
        ELSE closing(o, TRUE, line)

\* lines 768-793: ZOOM, or a run of + = - keys
zoom(cmd, line, args, tl, i) ==
    LET o == Outcome(cmd, tl, i)
        synerr == \/ Len(args) # 1
                  \/ (args[1] \notin {"IN", "OUT"} /\ ~pyfloat(args[1]).ok)
    IN  IF Head(cmd) # "Z" THEN o
        ELSE IF synerr
        THEN [o EXCEPT !.echoed = <<"Syntax error in command", "ZOOM IN/OUT">>]
        ELSE o

\* lines 798-856: PAN
pan(cmd, line, args, tl, i) ==
    LET o == Outcome(cmd, tl, i)
        numargs == Len(args)
        iac == id2idx(args[1])
        iwp == indexIn(navdbwp, args[1])
        iap == indexIn(navdbap, args[1])
    IN  IF ~(numargs = 1 \/ numargs = 2)
        THEN [o EXCEPT !.echoed = (IF numargs > 0 THEN <<"Syntax error in command">> ELSE <<>>)
                                   \o <<"PAN LEFT/RIGHT/UP/DOWN/acid/airport/navid">>]
        ELSE IF numargs = 1
        THEN IF args[1] \in {"LEFT", "RIGHT", "UP", "DOWN"} THEN o
             ELSE IF iac >= 0 THEN [o EXCEPT !.lookups = 1, !.i = Bound(iac)]
             ELSE IF iwp >= 0 THEN [o EXCEPT !.lookups = 1, !.i = Bound(iwp)]
             ELSE IF iap >= 0 THEN [o EXCEPT !.lookups = 1, !.i = Bound(iap)]
             ELSE closing([o EXCEPT !.lookups = 1, !.i = Bound(-1),
                                    !.echoed = <<args[1] \o " not found.">>],
                          TRUE, line)
        ELSE IF pyfloat(args[1]).ok /\ pyfloat(args[2]).ok THEN o
        ELSE [o EXCEPT !.exit = "raise"]

\* lines 902-924: METRICS without a metric number; env.metric tells whether
\* the metrics module is loaded (sim.metric is not None)
metrics(cmd, line, args, tl, i, env) ==
    LET o == Outcome(cmd, tl, i)
    IN  IF ~env.metric THEN [o EXCEPT !.echoed = <<"METRICS module disabled">>]
        ELSE IF Len(args) < 1
        THEN [o EXCEPT !.echoed = <<"No metric active, to configure run:",
                                    "METRICS OFF/0/1/2 [dt]">>]
        ELSE IF args[1] = "OFF" THEN [o EXCEPT !.echoed = <<"Metric is off">>]
        ELSE [o EXCEPT !.echoed = <<"Command argument invalid">>, !.exit = "return"]

\* lines 684-761: DEST and ORIG; the route's addwpt is the call made, and
\* env.res.flag tells whether it found the airport (iwp >= 0)
destorig(cmd, line, args, tl, i, env) ==
    LET o == Outcome(cmd, tl, i)
        numargs == Len(args)
    IN  IF numargs = 0 THEN [o EXCEPT !.echoed = <<cmd \o " acid, airport">>]
        ELSE IF id2idx(args[1]) < 0
        THEN [o EXCEPT !.lookups = 1,
                       !.echoed = <<cmd \o ": aircraft " \o args[1] \o " not found.">>]
        ELSE IF numargs = 1
        THEN [o EXCEPT !.lookups = 1, !.echoed = <<cmd \o " " \o args[1] \o ": ">>]
        ELSE [o EXCEPT !.lookups = 1, !.stage = "invoke",
                       !.called = <<[function |-> "traf.route.addwpt",
                                     arglist |-> <<Num("idx", id2idx(args[1])),
                                                   Text(strip(upper(args[2])))>>]>>,
                       !.echoed = IF env.res.flag THEN <<>>
                                  ELSE <<strip(upper(args[2])) \o " not found.">>]

\* the extension module is handed the command name with its prefix
extensionKeepsPrefix(cmd, line, args, tl, i, env) ==
    [Outcome(cmd, tl, i) EXCEPT
        !.stage = "invoke",
        !.called = <<[function |-> SubSeq(cmd, 1, 4) \o ".process",
                      arglist |-> <<Text(cmd), Num("int", Len(args))>>
                                  \o [k \in 1..(Len(args) + 1) |->
                                         Text((<<cmd>> \o args)[k])]]>>,
        !.app = IF env.app = "" THEN <<>> ELSE <<env.app>>]

\* lines 1576-1577: a command of an extension module
extension(cmd, line, args, tl, i, env) ==
    [Outcome(cmd, tl, i) EXCEPT
        !.stage = "invoke",
        !.called = <<[function |-> SubSeq(cmd, 1, 4) \o ".process",
                      arglist |-> <<Text(sliceFrom(cmd, 4)), Num("int", Len(args))>>
                                  \o [k \in 1..(Len(args) + 1) |->
                                         Text((<<cmd>> \o args)[k])]]>>,
        !.app = IF env.app = "" THEN <<>> ELSE <<env.app>>]

\* command not found, with one message for both cases
unknownOneMessage(cmd, line, args, tl, i) ==
    [Outcome(cmd, tl, i) EXCEPT !.echoed = <<"Unknown command: " \o cmd>>]

\* lines 1582-1586: command not found
unknown(cmd, line, args, tl, i) ==
    [Outcome(cmd, tl, i) EXCEPT
        !.echoed = IF Len(args) = 0 THEN <<"Unknown command or aircraft: " \o cmd>>
                   ELSE <<"Unknown command: " \o cmd>>]

\* the branches of the elif chain that this model does not follow
otherBranch(cmd) ==
    \/ cmd \in {"DEL", "IC", "AREA", "TAXI", "SWRAD",
                "LNAV", "VNAV", "ASAS", "ADDWPT", "DELWPT", "DIRECT", "LISTRTE",
                "ADSBCOVERAGE", "BOX", "CIRCLE"}
    \/ \E p \in {"DISP", "DIST", "CALC", "POLY", "LINE", "TRAIL", "DUMPRTE", "XXX"} :
          startswith(cmd, p)

\* the roster the running simulation holds: the vehicles of trafid
traf == [k \in 1..Len(trafid) |-> Vehicle(trafid[k], "B744")]

\* lines 891-897 where a failed save is not reported
saveicCmdSilent(cmd, line, args, tl, i, env) ==
    IF Len(args) <= 0
    THEN [Outcome(cmd, tl, i) EXCEPT !.echoed = <<"SAVEIC needs filename">>]
    ELSE The({ [Outcome(cmd, tl, i) EXCEPT
                   !.errcode = Num("int", r.ret),
                   !.saved = r.file] :
               r \in {saveic(args[1], traf, env.writable)} })

\* lines 891-897: the SAVEIC branch
saveicCmd(cmd, line, args, tl, i, env) ==
    IF Len(args) <= 0
    THEN [Outcome(cmd, tl, i) EXCEPT !.echoed = <<"SAVEIC needs filename">>]
    ELSE The({ [Outcome(cmd, tl, i) EXCEPT
                   !.errcode = Num("int", r.ret),
                   !.echoed = IF r.ret = 0 - 1
                              THEN <<"SAVEIC: Error writing file">> ELSE <<>>,
                   !.saved = r.file] :
               r \in {saveic(args[1], traf, env.writable)} })

\* the command and its arguments when an identifier alone means POS only if
\* it is no alias and no registered command
resolveRegistryFirst(line) ==
    The({ LET impl == /\ Len(sp.args) = 0 /\ indexIn(trafid, sp.cmd) >= 0
                      /\ sp.cmd \notin DOMAIN cmdsynon
                      /\ sp.cmd \notin DOMAIN cmddict
              cmd0 == IF impl THEN "POS" ELSE sp.cmd
          IN  [cmd  |-> IF cmd0 \in DOMAIN cmdsynon THEN cmdsynon[cmd0] ELSE cmd0,
               args |-> IF impl THEN <<sp.cmd>> ELSE sp.args] :
          sp \in {cmdsplit(upper(line), trafid)} })

\* the command and its arguments with the synonym table left out
resolveNoSynonym(line) ==
    The({ LET impl == Len(sp.args) = 0 /\ indexIn(trafid, sp.cmd) >= 0
          IN  [cmd  |-> IF impl THEN "POS" ELSE sp.cmd,
               args |-> IF impl THEN <<sp.cmd>> ELSE sp.args] :
          sp \in {cmdsplit(upper(line), trafid)} })

\* lines 459-483: the command and its arguments: split, an aircraft id
\* alone means POS, then the synonym table
resolve(line) ==
    The({ LET impl == Len(sp.args) = 0 /\ indexIn(trafid, sp.cmd) >= 0
              cmd0 == IF impl THEN "POS" ELSE sp.cmd
          IN  [cmd  |-> IF cmd0 \in DOMAIN cmdsynon THEN cmdsynon[cmd0] ELSE cmd0,
               args |-> IF impl THEN <<sp.cmd>> ELSE sp.args] :
          sp \in {cmdsplit(upper(line), trafid)} })

\* lines 485-1586: the elif chain over the command
branch(cmd, line, args, tl, i, env) ==
    IF cmd \in DOMAIN cmddict THEN registered(cmd, line, args, tl, i, env)
    ELSE IF cmd = "POS" \/ cmd = "?" THEN pos(cmd, line, args, tl, i)
    ELSE IF cmd = "DEL" THEN [Outcome(cmd, tl, i) EXCEPT !.kind = "other"]
    ELSE IF cmd = "DEST" \/ cmd = "ORIG" THEN destorig(cmd, line, args, tl, i, env)
    ELSE IF startswith(cmd, "ZOOM") \/ Head(cmd) \in {"+", "=", "-"}
    THEN zoom(cmd, line, args, tl, i)
    ELSE IF cmd = "PAN" THEN pan(cmd, line, args, tl, i)
    ELSE IF cmd = "IC" THEN [Outcome(cmd, tl, i) EXCEPT !.kind = "other"]
    ELSE IF cmd = "SAVEIC" THEN saveicCmd(cmd, line, args, tl, i, env)
    ELSE IF startswith(cmd, "METRIC")
    THEN IF Len(args) >= 1 /\ args[1] # "OFF" /\ isdigit(sliceFrom(args[1], 1))
         THEN [Outcome(cmd, tl, i) EXCEPT !.kind = "other"]
         ELSE metrics(cmd, line, args, tl, i, env)
    ELSE IF otherBranch(cmd) THEN [Outcome(cmd, tl, i) EXCEPT !.kind = "other"]
    ELSE IF Len(cmd) >= 4 /\ SubSeq(cmd, 1, 4) \in extracmdrefs
    THEN extension(cmd, line, args, tl, i, env)
    ELSE unknown(cmd, line, args, tl, i)

\* lines 452-595: one iteration of the for-loop over cmdstack
dispatch(rawline, tl, i, env) ==
    The({ IF Len(line) = 0 THEN [Outcome("", tl, i) EXCEPT !.kind = "empty"]
          ELSE The({ branch(r.cmd, line, r.args, tl, i, env) : r \in {resolve(line)} }) :
          line \in {strip(rawline)} })

-----------------------------------------------------------------------------------------------------------------------------------------------------
(* Inputs                                                                  *)

Simts == {k * Centi : k \in 0..MaxSimt}

\* lines typed by the operator
CmdLines == {"OP", "FOOBAR 1", "hold ; DT"}

\* single operator inputs: every registered command without arguments and
\* with one argument too few, and lines that fail in each other way
BareCommands == DOMAIN cmddict

OneShort == {"ALT KL1", "CRE KL2,A320,52,4,90,FL100", "LOG KL1", "MOVE KL1,52",
             "HDG KL1", "SPD KL1", "VS KL1"}

OtherLines == {"FOOBAR", "FOOBAR 1,2", "DT X", "DT 1", "FIXDT ON,X", "FIXDT ON,10",
               "NOM XX", "NOM KL1", "HDG XX,90", "METRICS A", "METRICS", "PAN A,B",
               "PAN 52,4", "PAN LEFT", "ZOOM", "ZOOM IN", "KL1", "kl1 nom",
               "SYN_SIMPLE 1", "SYN_SIMPLE", "ASA_RESO 1,2", "MOVE KL1,X,4", "echo Hello, World", "? DT",
               "OP;METRICS A", "ECHO *", "HELP *", "ALT KL1,*", "ALT KL1,FL100",
               "ALT KL1,FL100,500", "ENG KL1", "FIXDT ON", "PCALL ic", "PAUSE",
               "DTLOOK 1", "Q", "HELP dt", "MOVE KL1,X,*", "HDG XX,*",
               "MCRE X,*", "LOG *,1", "FF *", "DATAFEED *", "SEED *", "DT *", "NOM *",
               "CRE KL2,A320,*,*,*,*,*", "VS KL1,*", "SPD KL1,*", "ENG KL1,,",
               "SCEN x", "HELP DT", "?", "SAVEIC", "SAVEIC ic", "SAVEIC out/ic",
               "saveic ic.scn"}

BaseLines == BareCommands \cup OneShort \cup OtherLines

LineInputs == BaseLines \cup {l \o ";OP" : l \in BaseLines}

\* what the external handlers may return, and the line one may stack
Results == {RNone, RBool(TRUE), RBool(FALSE), RTuple1(FALSE),
            RPair(TRUE, "done"), RPair(FALSE, "failed")}

Apps == {"", "OP"}

DefaultEnv == [res |-> RNone, app |-> "", accept |-> FALSE, file |-> NoFile,
               metric |-> TRUE, writable |-> TRUE]

\* the environments that differ in a part the line's dispatch reads
EnvsFor(rawline, tl, i, R, A, F) ==
    The({
      LET fn == IF o.called = <<>> THEN "" ELSE o.called[1].function
          short == fn # "" /\ fn \notin ownHandlers /\ o.cmd \in DOMAIN cmddict
                   /\ Len(o.called[1].arglist) < Len(mandatory(cmddict[o.cmd][2]))
      IN  IF fn = ""
          THEN IF startswith(o.cmd, "METRIC")
               THEN {[DefaultEnv EXCEPT !.metric = m] : m \in BOOLEAN}
               ELSE IF o.cmd = "SAVEIC"
               THEN {[DefaultEnv EXCEPT !.writable = w] : w \in BOOLEAN}
               ELSE {DefaultEnv}
          ELSE IF fn = "self.pcall" THEN {[DefaultEnv EXCEPT !.file = f] : f \in F}
          ELSE IF fn = "self.setSeed" THEN {DefaultEnv}
          ELSE IF fn = "self.help" \/ fn = "scr.feature"
          THEN {[DefaultEnv EXCEPT !.res = r] : r \in R}
          ELSE IF o.stage = "invoke" /\ o.cmd \notin DOMAIN cmddict
          THEN {[DefaultEnv EXCEPT !.app = a] : a \in A}
          ELSE {[DefaultEnv EXCEPT !.res = r, !.app = a, !.accept = c] :
                   r \in R, a \in A, c \in IF short THEN BOOLEAN ELSE {FALSE}} :
      o \in {dispatch(rawline, tl, i, DefaultEnv)} })

\* the three tables as __init__ builds them
Tables == [cmddict |-> cmddict, cmdsynon |-> cmdsynon, extracmdrefs |-> extracmdrefs]

NoOp == [op |-> "init", exit |-> "return", simt |-> 0, merge |-> FALSE,
         file |-> <<>>, t_offset |-> 0, released |-> <<>>, cmdline |-> "",
         before |-> 0, arg |-> None, text |-> "", ret |-> 0]

NoLine == [Outcome("", [scentime |-> <<>>, scencmd |-> <<>>], Unbound)
               EXCEPT !.kind = "none"]

-----------------------------------------------------------------------------
(* State machine                                                           *)

\* __init__, lines 211-223
Init ==
    /\ cmdstack = stack(stack(stack(<<>>,
                     "ECHO BlueSky Console Window: Enter HELP or ? for info.\n"
                        \o "Or select IC to Open a scenario file."),
                     "PAN " \o start_location), "ZOOM 0.4")
    /\ scentime = <<>>
    /\ scencmd = <<>>
    /\ pc = "idle"
    /\ ip = 0
    /\ n0 = 0
    /\ iv = Unbound
    /\ lastop = NoOp
    /\ cur = NoLine
    /\ dispatched = <<>>
    /\ tables = Tables
    /\ disk = NoFile

Stack(L) ==
    /\ pc = "idle"
    /\ \E cmdline \in L :
        /\ Len(stack(cmdstack, cmdline)) <= MaxQueue
        /\ cmdstack' = stack(cmdstack, cmdline)
        /\ lastop' = [NoOp EXCEPT !.op = "stack", !.cmdline = cmdline]
    /\ UNCHANGED <<scentime, scencmd, pc, ip, n0, iv, cur, dispatched, tables, disk>>

Openfile(F, O) ==
    /\ pc = "idle"
    /\ \E file \in F, t_offset \in O, merge \in BOOLEAN :
        \E r \in {openfile(scentime, scencmd, file, t_offset, merge)} :
            /\ Len(r.scentime) <= MaxTimeline
            /\ scentime' = r.scentime
            /\ scencmd' = r.scencmd
            /\ lastop' = [NoOp EXCEPT !.op = "openfile", !.exit = r.exit,
                                      !.merge = merge, !.file = file,
                                      !.t_offset = t_offset,
                                      !.before = Len(scentime)]
    /\ UNCHANGED <<cmdstack, pc, ip, n0, iv, cur, dispatched, tables, disk>>

Checkfile(T) ==
    /\ pc = "idle"
    /\ \E simt \in T :
        \E r \in {checkfile(cmdstack, scentime, scencmd, simt)} :
            /\ Len(r.cmdstack) <= MaxQueue
            /\ cmdstack' = r.cmdstack
            /\ scentime' = r.scentime
            /\ scencmd' = r.scencmd
            /\ lastop' = [NoOp EXCEPT !.op = "checkfile", !.simt = simt,
                                      !.released = r.released]
    /\ UNCHANGED <<pc, ip, n0, iv, cur, dispatched, tables, disk>>

\* a reset that forgets the second of the two lists
ResetKeepsCommands ==
    /\ pc = "idle"
    /\ scentime' = <<>>
    /\ scencmd' = scencmd
    /\ lastop' = [NoOp EXCEPT !.op = "reset", !.before = Len(scentime)]
    /\ UNCHANGED <<cmdstack, pc, ip, n0, iv, cur, dispatched, tables, disk>>

\* reset(), lines 275-277
Reset ==
    /\ pc = "idle"
    /\ scentime' = <<>>
    /\ scencmd' = <<>>
    /\ lastop' = [NoOp EXCEPT !.op = "reset", !.before = Len(scentime)]
    /\ UNCHANGED <<cmdstack, pc, ip, n0, iv, cur, dispatched, tables, disk>>

\* saveic(fname, sim, traf), lines 375-446, called directly: the file is
\* written when it could be opened, else the disk is left as it is
Saveic(R, N, W) ==
    /\ pc = "idle"
    /\ \E roster \in R, fname \in N, writable \in W :
        \E r \in {saveic(fname, roster, writable)} :
            /\ disk' = IF r.ret = 0 THEN r.file ELSE disk
            /\ lastop' = [NoOp EXCEPT !.op = "saveic", !.cmdline = fname,
                                      !.ret = r.ret, !.file = r.file]
    /\ UNCHANGED <<cmdstack, scentime, scencmd, pc, ip, n0, iv, cur, dispatched, tables>>

\* the orders in which the keys of cmddict may be iterated: a dictionary
\* keeps no order of its own
RECURSIVE ascending(_)
ascending(S) ==
    IF S = {} THEN <<>>
    ELSE LET x == CHOOSE y \in S : \A z \in S : Len(y) <= Len(z)
         IN  <<x>> \o ascending(S \ {x})
reversed(sq) == [k \in 1..Len(sq) |-> sq[Len(sq) + 1 - k]]
KeyOrders == {ascending(DOMAIN cmddict), reversed(ascending(DOMAIN cmddict))}

\* the commands help() is asked about: none, every registered name in upper
\* and in lower case, and names that are not registered
HelpArgs ==
    {None} \cup {Text(c) : c \in DOMAIN cmddict} \cup {Text(lower(c)) : c \in DOMAIN cmddict}
           \cup {Text("FOOBAR"), Text(""), Text("PAUSE")}

\* help(cmd), lines 254-269, called directly
Help(A) ==
    /\ pc = "idle"
    /\ \E arg \in A, keys \in KeyOrders :
         lastop' = [NoOp EXCEPT !.op = "help", !.arg = arg,
                                !.text = IF arg = None THEN helpAll(keys) ELSE help(arg.s)]
    /\ UNCHANGED <<cmdstack, scentime, scencmd, pc, ip, n0, iv, cur, dispatched, tables, disk>>

\* process() is entered: the for-loop starts at the head of cmdstack
ProcessBegin ==
    /\ pc = "idle"
    /\ pc' = "process"
    /\ ip' = 0
    /\ n0' = Len(cmdstack)
    /\ iv' = Unbound
    /\ cur' = NoLine
    /\ dispatched' = <<>>
    /\ lastop' = [NoOp EXCEPT !.op = "process", !.exit = "running"]
    /\ UNCHANGED <<cmdstack, scentime, scencmd, tables, disk>>

\* one iteration of the for-loop: the next queued line is dispatched; a
\* "return" or an uncaught exception leaves process() with cmdstack as it is
ProcessLine(R, A, F) ==
    /\ pc = "process"
    /\ ip < Len(cmdstack)
    /\ LET rawline == cmdstack[ip + 1]
           tl == [scentime |-> scentime, scencmd |-> scencmd]
       IN  \E env \in EnvsFor(rawline, tl, iv, R, A, F) :
             \E o \in {dispatch(rawline, tl, iv, env)} :
                 /\ o.kind \in {"line", "empty"}
                 /\ Len(cmdstack) + Len(o.app) <= MaxQueue
                 /\ Len(o.scentime) <= MaxTimeline
                 /\ cmdstack' = cmdstack \o o.app
                 /\ scentime' = o.scentime
                 /\ scencmd' = o.scencmd
                 /\ iv' = o.i
                 /\ cur' = [o EXCEPT !.scentime = <<>>, !.scencmd = <<>>, !.i = Unbound]
                 /\ disk' = IF o.saved = NoFile THEN disk ELSE o.saved
                 /\ dispatched' = IF o.kind = "empty" THEN dispatched
                                  ELSE Append(dispatched, strip(rawline))
                 /\ ip' = ip + 1
                 /\ pc' = IF o.exit = "next" THEN "process" ELSE "idle"
                 /\ lastop' = [NoOp EXCEPT !.op = "process",
                                 !.exit = IF o.exit = "next" THEN "running" ELSE o.exit,
                                 !.file = env.file, !.before = Len(scentime)]
    /\ UNCHANGED <<n0, tables>>

\* a loop that starts again at the head of the queue when it is exhausted
ProcessEndRestarts ==
    /\ pc = "process"
    /\ ip >= Len(cmdstack)
    /\ pc' = "process"
    /\ ip' = 0
    /\ n0' = Len(cmdstack)
    /\ iv' = Unbound
    /\ cur' = NoLine
    /\ dispatched' = <<>>
    /\ lastop' = [NoOp EXCEPT !.op = "process", !.exit = "running"]
    /\ UNCHANGED <<cmdstack, scentime, scencmd, tables, disk>>

\* a pass that ends by emptying the synonym table together with the queue
ProcessEndClearsSynonyms ==
    /\ pc = "process"
    /\ ip >= Len(cmdstack)
    /\ cmdstack' = <<>>
    /\ pc' = "idle"
    /\ ip' = 0
    /\ n0' = 0
    /\ iv' = Unbound
    /\ cur' = NoLine
    /\ dispatched' = <<>>
    /\ lastop' = [NoOp EXCEPT !.op = "process", !.exit = "return"]
    /\ tables' = [tables EXCEPT !.cmdsynon = [x \in {} |-> ""]]
    /\ UNCHANGED <<scentime, scencmd, disk>>


\* the for-loop is exhausted: lines 1598-1600
ProcessEnd ==
    /\ pc = "process"
    /\ ip >= Len(cmdstack)
    /\ cmdstack' = <<>>
    /\ pc' = "idle"
    /\ ip' = 0
    /\ n0' = 0
    /\ iv' = Unbound
    /\ cur' = NoLine
    /\ dispatched' = <<>>
    /\ lastop' = [NoOp EXCEPT !.op = "process", !.exit = "return"]
    /\ UNCHANGED <<scentime, scencmd, tables, disk>>

\* The whole interpreter: operator input, scenario playing and dispatch
Next ==
    \/ Stack(CmdLines)
    \/ Openfile(FewFiles, Offsets)
    \/ Checkfile(Simts)
    \/ Reset
    \/ ProcessBegin
    \/ ProcessLine(Results, Apps, FewFiles)
    \/ ProcessEnd

Spec == Init /\ [][Next]_vars

\* Scenario playing: files are loaded, merged and released; the handlers of
\* the released commands return nothing and stack nothing
NextSched ==
    \/ Openfile(Files \cup {NoFile}, {0})
    \/ Checkfile(Simts)
    \/ Reset
    \/ ProcessBegin
    \/ ProcessLine({RNone}, {""}, {NoFile})
    \/ ProcessEnd

SpecSched == Init /\ [][NextSched]_vars

\* Scenario loading: files with well-formed and malformed lines are loaded
\* with and without an offset, replacing or merging, and cleared
NextFile ==
    \/ Openfile(RichFiles \cup {NoFile, Unreadable}, Offsets)
    \/ Reset

SpecFile == Init /\ [][NextFile]_vars

\* Nested scenario files: the operator has typed a PCALL line, files are
\* loaded and cleared, and process() runs
PcallLines == {"PCALL ic", "PCALL ic ABS", "PCALL ic REL"}

InitPcall ==
    /\ \E cmdline \in PcallLines :
         /\ cmdstack = stack(<<>>, cmdline)
         /\ lastop = [NoOp EXCEPT !.op = "stack", !.cmdline = cmdline]
    /\ scentime = <<>>
    /\ scencmd = <<>>
    /\ pc = "idle"
    /\ ip = 0
    /\ n0 = 0
    /\ iv = Unbound
    /\ cur = NoLine
    /\ dispatched = <<>>
    /\ tables = Tables
    /\ disk = NoFile

NextPcall ==
    \/ Openfile(Files, Offsets)
    \/ Reset
    \/ ProcessBegin
    \/ ProcessLine({RNone}, {""}, FewFiles \cup {Unreadable})
    \/ ProcessEnd

SpecPcall == InitPcall /\ [][NextPcall]_vars

\* Saving and replaying: the roster is exported, the file saveic wrote is
\* loaded, released and dispatched; the handlers return nothing
NextSave ==
    \/ Saveic(Rosters, SaveNames, BOOLEAN)
    \/ Openfile({disk}, {0})
    \/ Checkfile({0})
    \/ ProcessBegin
    \/ ProcessLine({RNone}, {""}, {NoFile})
    \/ ProcessEnd

SpecSave == Init /\ [][NextSave]_vars

\* Playing files with lines of every kind: they are loaded, released,
\* cleared and dispatched; the handlers return nothing
NextPlay ==
    \/ Openfile(RichFiles \cup {Unreadable}, {0})
    \/ Checkfile(Simts)
    \/ Reset
    \/ ProcessBegin
    \/ ProcessLine({RNone}, {""}, {NoFile})
    \/ ProcessEnd

SpecPlay == Init /\ [][NextPlay]_vars

\* The help texts: help() is called with and without a command, between
\* file loads and resets
NextHelp ==
    \/ Help(HelpArgs)
    \/ Openfile(FewFiles, {0})
    \/ Reset

SpecHelp == Init /\ [][NextHelp]_vars

\* Dispatch of one operator input: the start-up lines have been drained,
\* the operator has typed one line, and process() runs
InitLine ==
    /\ \E cmdline \in LineInputs :
         /\ cmdstack = stack(<<>>, cmdline)
         /\ lastop = [NoOp EXCEPT !.op = "stack", !.cmdline = cmdline]
    /\ scentime = <<>>
    /\ scencmd = <<>>
    /\ pc = "idle"
    /\ ip = 0
    /\ n0 = 0
    /\ iv = Unbound
    /\ cur = NoLine
    /\ dispatched = <<>>
    /\ tables = Tables
    /\ disk = NoFile

NextLine ==
    \/ ProcessBegin
    \/ ProcessLine(Results, Apps, FewFiles)
    \/ ProcessEnd

SpecLine == InitLine /\ [][NextLine]_vars

\* the for-loop of process() goes on to its next line
LoopStep == pc = "process" /\ ip < Len(cmdstack) /\ ip' = ip + 1

\* The same with the scheduling of a pass: process() is one call, so once it
\* is entered the loop takes its next step while a line is left, and the
\* pass ends when the loop is exhausted
SpecLineFair ==
    /\ InitLine
    /\ [][NextLine]_vars
    /\ WF_ip(LoopStep)
    /\ WF_vars(ProcessEnd)

-----------------------------------------------------------------------------
(* Properties                                                              *)

IsSorted(ts) == \A k \in 1..(Len(ts) - 1) : ts[k] <= ts[k + 1]

\* the line the for-loop of process() dispatched last, stripped
curLine == strip(cmdstack[ip])

\* a step of process() has dispatched a non-empty line
Dispatched == lastop.op = "process" /\ ip >= 1 /\ cur.kind = "line"

\* C1: after checkfile(simt) returns, every entry left in the timeline has a
\* trigger time above simt, and the entries the call released had trigger
\* times of at most simt and were released in ascending order.
C1_CheckfilePostcondition ==
    lastop.op = "checkfile" =>
        /\ \A k \in DOMAIN scentime : scentime[k] > lastop.simt
        /\ \A k \in DOMAIN lastop.released : lastop.released[k] <= lastop.simt
        /\ IsSorted(lastop.released)

\* a checkfile call has released two entries and left one
C1_Witness ==
    /\ lastop.op = "checkfile"
    /\ Len(lastop.released) = 2
    /\ Len(scentime) = 1

\* C2: in every reachable state the trigger times of the scenario timeline
\* are in non-decreasing order.
C2_TimelineSorted == IsSorted(scentime)

\* openfile has replaced the timeline by the two entries of a file
C2_Witness ==
    /\ lastop.op = "openfile"
    /\ ~lastop.merge
    /\ Len(scentime) = 2

\* the entries an openfile call parses from its file
newEntries(file, t_offset) ==
    IF file = NoFile THEN <<>>
    ELSE zip(Parsed[file, t_offset].scentime, Parsed[file, t_offset].scencmd)

\* res is old followed by new, stably sorted on the trigger time: it is
\* sorted, and for every trigger time its entries are those of old followed
\* by those of new, in their order
MergedStably(old, new, res) ==
    /\ Len(res) = Len(old) + Len(new)
    /\ \A k \in 1..(Len(res) - 1) : res[k][1] <= res[k + 1][1]
    /\ \A t \in {(old \o new)[k][1] : k \in DOMAIN (old \o new)}
                \cup {res[k][1] : k \in DOMAIN res} :
          LET at(p) == p[1] = t
          IN  SelectSeq(res, at) = SelectSeq(old \o new, at)

\* C3: openfile with mergeWithExisting true on a sorted timeline yields the
\* existing entries followed by the newly parsed ones, stably sorted by
\* trigger time, every time still paired with its own command text.
C3_MergeIsStableSort ==
    [][(lastop'.op = "openfile" /\ lastop'.merge /\ IsSorted(scentime))
         => MergedStably(zip(scentime, scencmd),
                         newEntries(lastop'.file, lastop'.t_offset),
                         zip(scentime', scencmd'))]_vars

\* a merge has put a new entry before an existing one and another new entry
\* behind an existing entry of the same trigger time
C3_Witness ==
    /\ lastop.op = "openfile"
    /\ lastop.merge
    /\ lastop.file = <<"00:00:01.00>OP\n", "00:00:00.00>OP\n">>
    /\ lastop.t_offset = 0
    /\ zip(scentime, scencmd) = << <<0, "OP">>, <<Centi, "HOLD">>, <<Centi, "OP">> >>

\* C4: whenever process() returns to its caller, cmdstack is empty.
C4_QueueEmptyOnReturn ==
    (pc = "idle" /\ lastop.op = "process" /\ lastop.exit = "return") => cmdstack = <<>>

\* process() has exhausted its loop and returned
C4_Witness ==
    /\ pc = "idle"
    /\ lastop.op = "process"
    /\ lastop.exit = "return"
    /\ cmdstack = <<>>

\* C5: a line that has lines queued behind it never ends the pass, however
\* its own processing fails: the loop goes on to the next queued line.
C5_FailureIsolation ==
    [][(pc = "process" /\ ip + 1 < Len(cmdstack)) => pc' = "process"]_vars

\* an unknown command has been reported and the line behind it dispatched
C5_Witness ==
    /\ pc = "process"
    /\ dispatched = <<"FOOBAR", "OP">>

\* the segments of a line: the texts between its ';' characters
RECURSIVE join(_, _)
join(segs, c) ==
    IF Len(segs) = 0 THEN ""
    ELSE IF Len(segs) = 1 THEN segs[1]
    ELSE segs[1] \o c \o join(Tail(segs), c)

\* stack(cmdline) leaves the queued lines in place and appends the segments
\* of cmdline behind them, left to right
StackAppends ==
    lastop'.op = "stack" =>
        LET added == SubSeq(cmdstack', Len(cmdstack) + 1, Len(cmdstack'))
        IN  /\ Len(cmdstack') >= Len(cmdstack)
            /\ SubSeq(cmdstack', 1, Len(cmdstack)) = cmdstack
            /\ \A k \in DOMAIN added : ~contains(added[k], ";")
            /\ join(added, ";") = strip(lastop'.cmdline)

\* the lines dispatched so far by the running pass are the non-empty lines
\* at the head of cmdstack, in queue order
DispatchedInOrder ==
    pc = "process" =>
        /\ ip <= Len(cmdstack)
        /\ LET nonempty(l) == l # ""
           IN  dispatched = SelectSeq([k \in 1..ip |-> strip(cmdstack[k])], nonempty)

\* C6: dispatch order is FIFO: stack appends the ';' segments of its line in
\* left-to-right order behind the lines already queued, and process()
\* dispatches the queued lines in that order, each segment as its own line.
C6_DispatchIsFifo == [][StackAppends /\ DispatchedInOrder']_vars

\* a line stacked behind a queued one has been dispatched segment by segment
C6_Witness ==
    /\ pc = "process"
    /\ cmdstack = <<"OP", "hold ", " DT">>
    /\ dispatched = <<"OP", "hold", "DT">>

\* C7: when process() is left, no line a handler appended during the pass is
\* still undispatched.
C7_DrainRunsToCompletion ==
    (pc = "idle" /\ lastop.op = "process") =>
        ~(Len(cmdstack) > n0 /\ ip < Len(cmdstack))

\* a line appended by a handler during the pass has been dispatched
C7_Witness ==
    /\ pc = "process"
    /\ n0 = 1
    /\ Len(cmdstack) = 2
    /\ ip = 2

\* the last dispatched line names a registered command with fewer tokens
\* than the signature has mandatory type tags
TooFew ==
    /\ Dispatched
    /\ cur.cmd \in DOMAIN cmddict
    /\ Len(cmdsplit(upper(curLine), trafid).args) < Len(mandatory(cmddict[cur.cmd][2]))

\* C8: a line with fewer tokens than the mandatory parameters of its
\* registered command echoes the error message, the line and the usage
\* string, calls no handler, coerces nothing, looks no identifier up, and
\* the loop goes on with the next queued line.
C8_TooFewArguments ==
    TooFew =>
        /\ cur.echoed = <<"Syntax error: Too few arguments", curLine, cmddict[cur.cmd][1]>>
        /\ cur.called = <<>>
        /\ cur.coerce = "none"
        /\ cur.lookups = 0
        /\ cur.exit = "next"
        /\ pc = "process"

\* MOVE with two of its three mandatory tokens was refused and the line
\* behind it dispatched
C8_Witness ==
    /\ pc = "process"
    /\ cmdstack = <<"MOVE KL1,52", "OP">>
    /\ ip = 2
    /\ dispatched = <<"MOVE KL1,52", "OP">>

\* C9: when the coercion of a token raises, the generic error, the line and
\* the usage text are echoed, the handler is not called, and the loop goes
\* on with the next queued line.
C9_CoercionFailure ==
    (Dispatched /\ cur.coerce = "except") =>
        /\ cur.echoed = <<"Syntax error in processing arguments", curLine,
                          cmddict[cur.cmd][1]>>
        /\ cur.called = <<>>
        /\ cur.exit = "next"

\* a token of FIXDT failed to coerce
C9_Witness ==
    /\ Dispatched
    /\ cur.coerce = "except"
    /\ cur.cmd = "FIXDT"

\* C10: when an acid token names no known vehicle, '<cmd>:<id> not found' is
\* echoed and the handler is not called.
C10_AcidNotFound ==
    (Dispatched /\ cur.coerce = "break") =>
        /\ cur.echoed[1] = cur.cmd \o ":" \o cmdsplit(upper(curLine), trafid).args[1]
                           \o " not found"
        /\ cur.called = <<>>

\* the acid of NOM named no vehicle
C10_Witness ==
    /\ Dispatched
    /\ cur.coerce = "break"
    /\ cur.cmd = "NOM"

-----------------------------------------------------------------------------
\* the argument tokens of the line dispatched last
curArgs == resolve(curLine).args

\* the type tags, mandatory and optional, of the command dispatched last
curTypes == alltypes(cmddict[cur.cmd][2])

\* the handler of a registered command has been called for the line
Invoked == Dispatched /\ cur.cmd \in DOMAIN cmddict /\ cur.called # <<>>

reached(k) ==
    \A j \in 1..(k - 1) :
        coerce(strip(curTypes[j]), curArgs[j]).st \notin {"notfound", "raise"}

\* the place in the argument list of the value appended for token k: earlier
\* tokens that appended nothing (a lat or lon that did not parse) shift it
slot(k) ==
    k - Cardinality({j \in 1..(k - 1) :
                       coerce(strip(curTypes[j]), curArgs[j]).st \in {"synerr", "nothing"}})

MandatoryCoerced ==
    LET mand == mandatory(cmddict[cur.cmd][2])
    IN  /\ Len(curArgs) = Len(mand)
        /\ \A k \in 1..Len(mand) : coerce(strip(mand[k]), curArgs[k]).st = "val"

\* C12: when a command with optional parameters gets exactly its mandatory
\* tokens and they coerce, the handler is called with the coerced mandatory
\* values followed by None for each omitted optional parameter
C12_OmittedOptionalsAreNull ==
    (Invoked /\ Len(curTypes) > Len(mandatory(cmddict[cur.cmd][2]))
             /\ MandatoryCoerced) =>
        LET mand == mandatory(cmddict[cur.cmd][2])
            arglist == cur.called[1].arglist
        IN  /\ Len(arglist) = Len(curTypes)
            /\ \A k \in 1..Len(mand) : arglist[k] = coerce(strip(mand[k]), curArgs[k]).v
            /\ \A k \in (Len(mand) + 1)..Len(curTypes) : arglist[k] = None

\* C12 as amended: when a command with optional parameters gets exactly its
\* mandatory tokens and they coerce, the handler is called with the coerced
\* mandatory values and nothing else (an omitted optional parameter is left
\* to the handler's own default); a single [txt] gets the remainder of the
\* line as one text
C12_OnlySuppliedArePassed ==
    (Invoked /\ Len(curTypes) > Len(mandatory(cmddict[cur.cmd][2]))
             /\ MandatoryCoerced) =>
        LET mand == mandatory(cmddict[cur.cmd][2])
            arglist == cur.called[1].arglist
        IN  IF curTypes = <<"txt">>
            THEN Len(arglist) = 1 /\ arglist[1].t = "txt"
            ELSE /\ Len(arglist) = Len(mand)
                 /\ \A k \in 1..Len(mand) :
                        arglist[k] = coerce(strip(mand[k]), curArgs[k]).v

\* 'ALT KL1,FL100' (signature acid,alt,[vspd]) has been dispatched and
\* traf.selalt was called with the two coerced values only
C12_Witness ==
    /\ Dispatched
    /\ curLine = "ALT KL1,FL100"
    /\ cur.called = <<[function |-> "traf.selalt",
                       arglist |-> <<Num("idx", 0), Num("ft", 100 * 100 * Centi)>>]>>

-----------------------------------------------------------------------------
\* how often the text x has been echoed for the line dispatched last
echoCount(x) == Cardinality({k \in 1..Len(cur.echoed) : cur.echoed[k] = x})

\* a syntax-error message has been echoed for the line dispatched last
SyntaxErrorEchoed ==
    \E k \in 1..Len(cur.echoed) : startswith(cur.echoed[k], "Syntax error")

\* C13: when the handler of a registered command returns a pair
\* (successFlag, message), the message is echoed exactly once for the line,
\* whatever successFlag is, and no syntax-error message is echoed for it
C13_PairMessageEchoedOnce ==
    (Dispatched /\ cur.results.shape = "pair") =>
        /\ echoCount(cur.cmd \o ":" \o cur.results.msg) = 1
        /\ ~SyntaxErrorEchoed

\* 'FIXDT ON,X': the time token raised, sim.setFixdt was still called with
\* the flag alone and returned (True, 'done'); both messages were echoed
C13_Witness ==
    /\ Dispatched
    /\ curLine = "FIXDT ON,X"
    /\ cur.results = RPair(TRUE, "done")
    /\ cur.echoed = <<"Syntax error in processing arguments", "FIXDT ON,X",
                      "FIXDT ON/OFF [tend]", "FIXDT:done">>

-----------------------------------------------------------------------------
\* the number of messages the handler called for the line echoed itself:
\* scr.echo and the HELP handler echo one text, the others none
handlerEchoes ==
    IF cur.called[1].function \in {"scr.echo", "self.help"} THEN 1 ELSE 0

\* C14: when the handler of a registered command returns nothing or True
\* the dispatcher echoes nothing for the line; when it returns False the
\* dispatcher echoes exactly one message, which contains the usage text, and
\* goes on, for every shape of signature, a single txt included
C14_NoneAndBooleanResults ==
    (Invoked /\ cur.results.shape \in {"none", "bool"}) =>
        IF cur.results.shape = "none" \/ cur.results.flag
        THEN Len(cur.echoed) = handlerEchoes
        ELSE /\ cur.exit = "next"
             /\ Len(cur.echoed) = handlerEchoes + 1
             /\ contains(cur.echoed[Len(cur.echoed)], cmddict[cur.cmd][1])

\* 'SCEN x' (signature txt) has been dispatched, sim.scenarioInit returned
\* False, and process() was left by an exception before any echo
C14_Witness ==
    /\ Dispatched
    /\ curLine = "SCEN x"
    /\ cur.results = RBool(FALSE)
    /\ cur.exit = "raise"
    /\ cur.echoed = <<>>

-----------------------------------------------------------------------------
\* the command name as typed on the line dispatched last, and whether the
\* line is a vehicle identifier alone
typed == cmdsplit(upper(curLine), trafid)
IdAlone == Len(typed.args) = 0 /\ \E k \in 1..Len(trafid) : trafid[k] = typed.cmd

\* one hop through the synonym table
oneHop(name) == IF name \in DOMAIN cmdsynon THEN cmdsynon[name] ELSE name

\* the line went to an extension module / was reported unknown
ExtensionCalled ==
    \E k \in 1..Len(cur.called) :
        cur.called[k].function \in {p \o ".process" : p \in extracmdrefs}
UnknownEchoed ==
    \E k \in 1..Len(cur.echoed) : startswith(cur.echoed[k], "Unknown command")

\* C15: the name is resolved in a fixed order: one hop through the synonym
\* table, then the registry; an extension module is called only for a name
\* the registry does not hold and whose first four characters are a key of
\* the extension table; 'Unknown command' is echoed only when all of these
\* miss. A registered name never goes to an extension or is reported unknown
C15_ResolutionOrder ==
    (Dispatched /\ ~IdAlone) =>
        /\ cur.cmd = oneHop(typed.cmd)
        /\ cur.cmd \in DOMAIN cmddict =>
              /\ cur.stage \in {"arity", "invoke", "report"}
              /\ \A k \in 1..Len(cur.called) :
                    cur.called[k].function = cmddict[cur.cmd][3]
              /\ ~ExtensionCalled
              /\ ~UnknownEchoed
        /\ ExtensionCalled =>
              /\ cur.cmd \notin DOMAIN cmddict
              /\ Len(cur.cmd) >= 4 /\ SubSeq(cur.cmd, 1, 4) \in extracmdrefs
        /\ UnknownEchoed =>
              /\ cur.cmd \notin DOMAIN cmddict
              /\ ~(Len(cur.cmd) >= 4 /\ SubSeq(cur.cmd, 1, 4) \in extracmdrefs)
              /\ cur.called = <<>>

\* 'DTLOOK 1' has been dispatched: the alias became ASA_DTLOOK, which the
\* registry does not hold, and the line went to the ASA_ extension
C15_Witness ==
    /\ Dispatched
    /\ curLine = "DTLOOK 1"
    /\ cur.cmd = "ASA_DTLOOK"
    /\ ExtensionCalled
    /\ cur.called[1].function = "ASA_.process"

-----------------------------------------------------------------------------
\* names that are no alias, no registered command, no built-in branch and
\* carry no extension prefix
UnknownNames == {"FOOBAR"}

\* C16: a line whose command name matches nothing gets exactly one message,
\* 'Unknown command or aircraft: <NAME>' without arguments and
\* 'Unknown command: <NAME>' with arguments; no handler is called and the
\* pass goes on with the next queued line
C16_UnknownCommand ==
    (Dispatched /\ typed.cmd \in UnknownNames) =>
        /\ cur.echoed = <<(IF Len(typed.args) = 0
                           THEN "Unknown command or aircraft: "
                           ELSE "Unknown command: ") \o typed.cmd>>
        /\ cur.called = <<>>
        /\ cur.exit = "next"
        /\ pc = "process"

\* 'FOOBAR 1,2;OP' was typed: FOOBAR got its one message and OP has been
\* dispatched after it
C16_Witness ==
    /\ cmdstack = <<"FOOBAR 1,2", "OP">>
    /\ dispatched = <<"FOOBAR 1,2", "OP">>
    /\ pc = "process"
    /\ cur.cmd = "OP"

-----------------------------------------------------------------------------
\* the identifiers of the roster
Ids == {trafid[k] : k \in 1..Len(trafid)}

\* C17: a line that is one token equal to a known vehicle identifier is
\* dispatched as POS with that identifier as the only argument, also when
\* the identifier is an alias or a registered command name: the branch for
\* POS looks the identifier up and shows its status, no handler of the
\* registry is called
C17_IdentifierAloneIsPos ==
    (Dispatched /\ curLine \in Ids) =>
        /\ cur.cmd = "POS"
        /\ cur.lookups = 1
        /\ Len(cur.echoed) >= 1
        /\ startswith(cur.echoed[1], "Info on " \o curLine)
        /\ cur.called = <<>>
        /\ cur.exit = "next"

\* 'Q', an alias of STOP and the identifier of a vehicle, has been dispatched
\* as POS Q
C17_Witness ==
    /\ Dispatched
    /\ curLine = "Q"
    /\ cur.cmd = "POS"
    /\ cur.echoed = <<"Info on Q">>

-----------------------------------------------------------------------------
\* the line dispatched last starts with the command name
NameFirst == startswith(upper(curLine), typed.cmd)

\* what follows the command name, as typed, and the separator after it
remainder == sliceFrom(curLine, Len(typed.cmd) + 1)

\* C18: for a registered command whose signature is a single txt the handler
\* receives one argument, the remainder of the raw line after the command
\* name as typed (casing and separators kept), whether the command was
\* named by its canonical name or by an alias
C18_SingleTxtIsRemainder ==
    (Invoked /\ curTypes = <<"txt">> /\ NameFirst) =>
        cur.called[1].arglist = <<Text(remainder)>>

\* '? DT' has been dispatched: '?' is HELP, and the HELP handler was called
\* with the empty text
C18_Witness ==
    /\ Dispatched
    /\ curLine = "? DT"
    /\ cur.cmd = "HELP"
    /\ cur.called = <<[function |-> "self.help", arglist |-> <<Text("")>>]>>

-----------------------------------------------------------------------------
\* C19: openfile with mergeWithExisting false on a file that can be opened
\* replaces the timeline: afterwards it holds exactly the entries parsed
\* from the file, in file order, and nothing of what it held before
C19_ReplacingLoad ==
    [][(lastop'.op = "openfile" /\ ~lastop'.merge /\ lastop'.file # NoFile) =>
          zip(scentime', scencmd') = newEntries(lastop'.file, lastop'.t_offset)]_vars

\* a timeline of two entries has been replaced by the one entry of a file
C19_Witness ==
    /\ lastop.op = "openfile"
    /\ ~lastop.merge
    /\ lastop.file = <<"00:00:01.00>HOLD\n">>
    /\ lastop.before = 2
    /\ scentime = <<Centi>>
    /\ scencmd = <<"HOLD">>

-----------------------------------------------------------------------------
\* a scenario line without its line terminator
content(l) == IF Len(l) > 0 /\ Ch(l, Len(l)) = "\n" THEN SubSeq(l, 1, Len(l) - 1) ELSE l

\* the fields of the time stamp in front of the first '>'
stamp(l) == split(strip(slice(l, 0, find(l, ">"))), ":")

\* the line is long enough, no comment, and has a '>' behind an H:M:S time
\* stamp whose fields parse (whole hours and minutes, decimal seconds)
Accepted(l) ==
    /\ Len(strip(l)) > 12
    /\ Ch(l, 1) # "#"
    /\ find(l, ">") >= 0
    /\ Len(stamp(l)) = 3
    /\ pyint(stamp(l)[1]).ok /\ pyint(stamp(l)[2]).ok /\ pyfloat(stamp(l)[3]).ok

\* the entry an accepted line stands for
entry(l, t_offset) ==
    <<pyint(stamp(l)[1]).val * 3600 * Centi + pyint(stamp(l)[2]).val * 60 * Centi
         + pyfloat(stamp(l)[3]).val + t_offset,
      sliceFrom(content(l), find(l, ">") + 1)>>

\* one entry for each accepted line of the file, in file order
entries(file, t_offset) ==
    LET acc == SelectSeq(file, Accepted)
    IN  [k \in 1..Len(acc) |-> entry(acc[k], t_offset)]

\* C20: openfile adds exactly one entry for each line of stripped length
\* over 12 that is no comment and has a '>' behind an H:M:S time stamp that
\* parses, with time = hours*3600 + minutes*60 + seconds + t_offset and
\* text = what follows the first '>'; every other line adds nothing and the
\* lines after it are still parsed. (Stated for a replacing load, whose
\* result shows the added entries alone.)
C20_OneEntryPerAcceptedLine ==
    [][(lastop'.op = "openfile" /\ ~lastop'.merge /\ lastop'.file # NoFile) =>
          zip(scentime', scencmd') = entries(lastop'.file, lastop'.t_offset)]_vars

\* the file whose last line '00:00:00.00>HOLD' has no newline has been
\* loaded: the entry of that line holds the text 'HOL'
C20_Witness ==
    /\ lastop.op = "openfile"
    /\ ~lastop.merge
    /\ lastop.file = <<"00:01:00.00>OP\n", "00:00:00.00>HOLD">>
    /\ scentime = <<60 * Centi + lastop.t_offset, lastop.t_offset>>
    /\ scencmd = <<"OP", "HOL">>

-----------------------------------------------------------------------------
\* C21: openfile on a file that cannot be opened returns without raising and
\* leaves the timeline and the pending queue as they were, whether it was
\* to replace or to merge
C21_UnopenableFileIsHarmless ==
    [][(lastop'.op = "openfile" /\ lastop'.file \in {NoFile, Unreadable}) =>
          /\ lastop'.exit = "return"
          /\ scentime' = scentime /\ scencmd' = scencmd /\ cmdstack' = cmdstack]_vars

\* openfile has been called on a path that exists and cannot be read, with
\* a timeline of two entries: it was left by the exception of open()
C21_Witness ==
    /\ lastop.op = "openfile"
    /\ lastop.file = Unreadable
    /\ lastop.exit = "raise"
    /\ lastop.before = 2
    /\ Len(scentime) = 2

-----------------------------------------------------------------------------
\* C22: reset() empties the timeline whatever it held and changes neither
\* the pending queue nor the command, synonym and extension tables
C22_ResetEmptiesTimeline ==
    [][lastop'.op = "reset" =>
          /\ scentime' = <<>> /\ scencmd' = <<>>
          /\ cmdstack' = cmdstack
          /\ tables' = tables]_vars

\* reset() has been called on a timeline of two entries: the timeline is
\* empty and the three start-up lines are still queued
C22_Witness ==
    /\ lastop.op = "reset"
    /\ lastop.before = 2
    /\ scentime = <<>> /\ scencmd = <<>>
    /\ Len(cmdstack) = 3

-----------------------------------------------------------------------------
\* the step dispatches a PCALL line whose file can be read
PcallStep ==
    /\ lastop'.op = "process"
    /\ cur'.kind = "line"
    /\ cur'.called # <<>>
    /\ cur'.called[1].function = "self.pcall"
    /\ lastop'.file \notin {NoFile, Unreadable}

\* C23: 'PCALL file REL' at simulated time T merges the entries of the file
\* into the timeline with time = time stamp + T; 'PCALL file' and
\* 'PCALL file ABS' merge them with offset 0; the entries the timeline held
\* are kept
C23_PcallOffsets ==
    [][PcallStep =>
          LET arglist == cur'.called[1].arglist
              absrel  == IF Len(arglist) = 2 THEN arglist[2].s ELSE "ABS"
          IN  /\ cur'.exit = "next"
              /\ \E T \in (IF absrel = "REL" THEN Simts ELSE {0}) :
                    MergedStably(zip(scentime, scencmd),
                                 newEntries(lastop'.file, T),
                                 zip(scentime', scencmd'))]_vars

\* 'PCALL ic REL' has been dispatched on a timeline of one entry: process()
\* was left by an exception and the timeline still holds that one entry
C23_Witness ==
    /\ Dispatched
    /\ curLine = "PCALL ic REL"
    /\ cur.called = <<[function |-> "self.pcall",
                       arglist |-> <<Text("IC"), Text("REL")>>]>>
    /\ lastop.file \notin {NoFile, Unreadable}
    /\ cur.exit = "raise"
    /\ lastop.before = 1
    /\ Len(scentime) = 1

-----------------------------------------------------------------------------
\* C24: alias resolution is one hop and cannot chain or cycle: no target of
\* the synonym table is a key of it, and the dispatcher applies the table at
\* most once to a line, so the name it dispatches is no alias
C24_SingleHop ==
    /\ \A a \in DOMAIN tables.cmdsynon :
          tables.cmdsynon[a] \notin DOMAIN tables.cmdsynon
    /\ (Dispatched /\ ~IdAlone) =>
          /\ cur.cmd = oneHop(typed.cmd)
          /\ cur.cmd \notin DOMAIN tables.cmdsynon

\* 'PAUSE' has been dispatched as HOLD and sim.pause was called
C24_Witness ==
    /\ Dispatched
    /\ curLine = "PAUSE"
    /\ cur.cmd = "HOLD"
    /\ cur.called = <<[function |-> "sim.pause", arglist |-> <<>>]>>

-----------------------------------------------------------------------------
\* the first word of the line dispatched last, as typed
firstWord == wsplit(replace(curLine, ",", " "))[1]

\* C25: command names are case-insensitive: a line that starts with any
\* letter-case variant of a registered name is dispatched as that command,
\* and 'HELP <variant>' echoes the usage string of that command
C25_CaseInsensitive ==
    (Dispatched /\ ~IdAlone) =>
        /\ upper(firstWord) \in DOMAIN cmddict => cur.cmd = upper(firstWord)
        /\ (upper(firstWord) = "HELP" /\ upper(strip(remainder)) \in DOMAIN cmddict) =>
              /\ Len(cur.echoed) >= 1
              /\ cur.echoed[1] = cmddict[upper(strip(remainder))][1]

\* 'HELP dt' has been dispatched: the HELP handler got the text 'dt' and
\* answered that the command is unknown
C25_Witness ==
    /\ Dispatched
    /\ curLine = "HELP dt"
    /\ cur.called = <<[function |-> "self.help", arglist |-> <<Text("dt")>>]>>
    /\ cur.echoed[1] = "HELP: Unknown command: dt"

-----------------------------------------------------------------------------
\* how often the name is a word of the text
wordCount(text, name) ==
    LET words == wsplit(text)
    IN  Cardinality({k \in 1..Len(words) : words[k] = name})

\* C26: help() without a command returns a text that names every registered
\* command exactly once; help(name) returns the usage string of a registered
\* name and an 'Unknown command' text for any other
C26_HelpTexts ==
    lastop.op = "help" =>
        IF lastop.arg = None
        THEN \A c \in DOMAIN cmddict : wordCount(lastop.text, c) = 1
        ELSE IF lastop.arg.s \in DOMAIN cmddict
        THEN lastop.text = cmddict[lastop.arg.s][1]
        ELSE contains(lastop.text, "Unknown command")

\* help() has been called without a command and returned the listing
C26_Witness ==
    /\ lastop.op = "help"
    /\ lastop.arg = None
    /\ startswith(lastop.text, "To get help on a command")
    /\ wordCount(lastop.text, "help") = 1
    /\ wordCount(lastop.text, "HELP") = 1
    /\ wordCount(lastop.text, "OP") = 1

-----------------------------------------------------------------------------
\* the name after one hop through the synonym table is routed to an extension
Routed ==
    /\ oneHop(typed.cmd) \notin DOMAIN cmddict
    /\ Len(oneHop(typed.cmd)) >= 4
    /\ SubSeq(oneHop(typed.cmd), 1, 4) \in extracmdrefs

\* C27: a line routed to an extension module calls the module's process()
\* exactly once, with the name without its four-character prefix, the number
\* of arguments, and the name followed by the arguments; the core echoes
\* nothing for the line
C27_ExtensionCall ==
    (Dispatched /\ ~IdAlone /\ Routed) =>
        /\ Len(cur.called) = 1
        /\ cur.called[1].function = SubSeq(oneHop(typed.cmd), 1, 4) \o ".process"
        /\ cur.called[1].arglist =
              <<Text(sliceFrom(oneHop(typed.cmd), 4)), Num("int", Len(typed.args)),
                Text(oneHop(typed.cmd))>>
              \o [k \in 1..Len(typed.args) |-> Text(typed.args[k])]
        /\ cur.echoed = <<>>

\* 'ASA_RESO 1,2' has been dispatched: ASA_.process received RESO, 2 and
\* the list ASA_RESO, 1, 2
C27_Witness ==
    /\ Dispatched
    /\ curLine = "ASA_RESO 1,2"
    /\ cur.called = <<[function |-> "ASA_.process",
                       arglist |-> <<Text("RESO"), Num("int", 2), Text("ASA_RESO"),
                                     Text("1"), Text("2")>>]>>
    /\ cur.echoed = <<>>

-----------------------------------------------------------------------------
\* C28: the command registry, the synonym table and the extension table are
\* the ones built at construction, whatever stack, openfile, pcall, checkfile,
\* reset and process calls have been made
C28_TablesAreFixed ==
    /\ tables.cmddict = cmddict
    /\ tables.cmdsynon = cmdsynon
    /\ tables.extracmdrefs = extracmdrefs

\* a pass of process() has ended after a scenario was loaded and a command
\* released from it, and the three tables are as constructed
C28_Witness ==
    /\ pc = "idle"
    /\ lastop.op = "process"
    /\ lastop.exit = "return"
    /\ cmdstack = <<>>
    /\ scentime # <<>>
    /\ tables = [cmddict |-> cmddict, cmdsynon |-> cmdsynon,
                 extracmdrefs |-> extracmdrefs]

-----------------------------------------------------------------------------
\* the commands saveic exports behind the CRE line of a vehicle
FollowUps == {"VS", "ALT", "HDG", "SPD", "DEST", "ORIG"}

\* an earlier line of the pass was the CRE line of vehicle v
createdBefore(v) ==
    \E j \in 1..(Len(dispatched) - 1) :
        \E t \in {cmdsplit(upper(dispatched[j]), trafid)} :
            t.cmd = "CRE" /\ Len(t.args) >= 1 /\ t.args[1] = v

\* C29: replaying a file written by saveic reproduces the roster's commands:
\* every exported line carries the time stamp zero, a replacing load puts
\* the exported commands on the timeline in the order of the file, checkfile(0)
\* releases them all, and whenever a VS, ALT, HDG, SPD, DEST or ORIG line is
\* dispatched the CRE line of its vehicle was dispatched before it in the
\* pass, so that the vehicle is found
C29_ReplayCreatesFirst ==
    /\ disk # NoFile => \A k \in 1..Len(disk) : startswith(disk[k], "00:00:00.00>")
    /\ \A k \in 1..Len(scentime) : scentime[k] = 0
    /\ (lastop.op = "openfile" /\ ~lastop.merge /\ lastop.file # NoFile) =>
          /\ Len(scencmd) = Len(lastop.file)
          /\ \A k \in 1..Len(scencmd) :
                strip(scencmd[k]) = strip(sliceFrom(lastop.file[k], 12))
    /\ lastop.op = "checkfile" => scentime = <<>>
    /\ (Dispatched /\ typed.cmd \in FollowUps /\ Len(typed.args) >= 1) =>
          /\ createdBefore(typed.args[1])
          /\ cur.coerce \notin {"break", "except"}
          /\ cur.exit = "next"
          /\ Len(cur.called) = 1
          /\ \A k \in 1..Len(cur.echoed) : ~contains(cur.echoed[k], "not found")

\* the export of SYMBOL and of KL1 bound for EHAM has been replayed: the DEST
\* line is dispatched behind both CRE lines and finds KL1
C29_Witness ==
    /\ Dispatched
    /\ disk = <<"00:00:00.00>CRE SYMBOL,A320,52.0,4.0,90.0,10000.0,250.0\r\n",
                "00:00:00.00>CRE KL1,B744,52.0,4.0,90.0,10000.0,250.0\r\n",
                "00:00:00.00>DEST KL1,EHAM\r\n">>
    /\ dispatched = <<"CRE SYMBOL,A320,52.0,4.0,90.0,10000.0,250.0",
                      "CRE KL1,B744,52.0,4.0,90.0,10000.0,250.0",
                      "DEST KL1,EHAM">>
    /\ cur.called = <<[function |-> "traf.route.addwpt",
                       arglist |-> <<Num("idx", 0), Text("EHAM")>>]>>
    /\ cur.echoed = <<>>

-----------------------------------------------------------------------------
\* the non-empty lines of the queue, stripped
RECURSIVE nonEmptyLines(_)
nonEmptyLines(q) ==
    IF q = <<>> THEN <<>>
    ELSE IF strip(Head(q)) = "" THEN nonEmptyLines(Tail(q))
    ELSE <<strip(Head(q))>> \o nonEmptyLines(Tail(q))

\* C30: every non-empty queued line is dispatched exactly once: a pass of
\* process() never starts on a queue that still holds lines an earlier pass
\* dispatched (between two passes ip counts the entries at the head of the
\* queue that the pass before dispatched and left in place), and the queue is
\* emptied only when each of its non-empty lines has been dispatched
C30_DispatchedExactlyOnce ==
    [][/\ (pc = "idle" /\ pc' = "process") =>
             \A k \in 1..Len(cmdstack) : ~(k <= ip /\ strip(cmdstack[k]) # "")
       /\ (cmdstack # <<>> /\ cmdstack' = <<>>) =>
             dispatched = nonEmptyLines(cmdstack)]_vars

\* process() was left by the return of the METRICS branch: 'METRICS A' has
\* been dispatched and is still at the head of the queue, with 'OP' behind
\* it, for the next pass to dispatch again
C30_Witness ==
    /\ pc = "idle"
    /\ lastop.op = "process"
    /\ ip = 1
    /\ dispatched = <<"METRICS A">>
    /\ cmdstack = <<"METRICS A", "OP">>

-----------------------------------------------------------------------------
\* C31: whenever the handler of a registered command is invoked (a single
\* txt signature aside, which gets the rest of the line), it gets at least
\* as many values as the signature has mandatory parameters, and the k-th
\* value is the coercion of the k-th token under the k-th type tag
C31_ValuesAlignedWithSignature ==
    (Invoked /\ curTypes # <<"txt">>) =>
        LET arglist == cur.called[1].arglist
        IN  /\ Len(arglist) >= Len(mandatory(cmddict[cur.cmd][2]))
            /\ \A k \in 1..Len(arglist) :
                  /\ k <= Len(curTypes)
                  /\ k <= Len(curArgs)
                  /\ coerce(strip(curTypes[k]), curArgs[k]).st = "val"
                  /\ arglist[k] = coerce(strip(curTypes[k]), curArgs[k]).v

\* 'MOVE KL1,X,4' has been dispatched: the latitude X did not parse and
\* appended nothing, and the handler was called with the longitude in the
\* place of the latitude
C31_Witness ==
    /\ Dispatched
    /\ curLine = "MOVE KL1,X,4"
    /\ Len(cur.called) = 1
    /\ Len(cur.called[1].arglist) = 2
    /\ cur.called[1].arglist[2] = coerce("lon", "4").v
    /\ coerce("lat", "X").st = "synerr"

-----------------------------------------------------------------------------
\* C32: openfile with mergeWithExisting true on a file that can be read
\* returns without raising and leaves a sorted timeline, whatever the
\* timeline held and whatever the file holds, also when both are empty of
\* entries
C32_MergeNeverRaises ==
    [][(lastop'.op = "openfile" /\ lastop'.merge
          /\ lastop'.file \notin {NoFile, Unreadable}) =>
          /\ lastop'.exit = "return"
          /\ IsSorted(scentime')]_vars

\* a file without an accepted line has been merged into an empty timeline:
\* the unpacking of the empty sorted list raised
C32_Witness ==
    /\ lastop.op = "openfile"
    /\ lastop.merge
    /\ lastop.file \notin {NoFile, Unreadable}
    /\ lastop.before = 0
    /\ lastop.file = <<"# nothing to play\n", "00:00:01.00 HOLD now\n">>
    /\ newEntries(lastop.file, lastop.t_offset) = <<>>
    /\ lastop.exit = "raise"
    /\ scentime = <<>>

-----------------------------------------------------------------------------
\* the command texts of the accepted lines of the files that are played
RichTexts ==
    UNION { {entry(file[k], 0)[2] : k \in {j \in 1..Len(file) : Accepted(file[j])}} :
            file \in RichFiles }

\* the lines Init queues
StartupLines ==
    {"ECHO BlueSky Console Window: Enter HELP or ? for info.\n"
        \o "Or select IC to Open a scenario file.",
     "PAN " \o start_location, "ZOOM 0.4"}

\* C33: the text stored for an accepted scenario line is the whole command
\* text behind the first '>' of that line, without the line terminator, and
\* it is that text (stripped by stack) that checkfile releases into the
\* queue: no character is lost, also on a last line without a newline
C33_NoCharacterLost ==
    /\ \A k \in 1..Len(scencmd) : scencmd[k] \in RichTexts
    /\ \A k \in 1..Len(cmdstack) :
          cmdstack[k] \in StartupLines \cup {strip(t) : t \in RichTexts}

\* the file whose last line '00:00:00.00>HOLD' has no newline was merged into
\* the timeline and checkfile released the entry of that line as 'HOL'
C33_Witness ==
    /\ lastop.op = "checkfile"
    /\ Len(lastop.released) >= 1
    /\ cmdstack # <<>>
    /\ cmdstack[Len(cmdstack)] = "HOL"

-----------------------------------------------------------------------------
\* the (time, command) pairs that openfile parses from the lines of the files
\* that are played
RichPairs ==
    UNION { {<<Parsed[file, 0].scentime[k], Parsed[file, 0].scencmd[k]>> :
                k \in 1..Len(Parsed[file, 0].scentime)} : file \in RichFiles }

\* C34: in every reachable state scentime and scencmd have the same length,
\* and position k of the one and position k of the other are the time and
\* the command of one scenario line, whatever openfile (replacing or
\* merging, with well-formed and malformed lines), checkfile and reset did
C34_ParallelSequences ==
    /\ Len(scentime) = Len(scencmd)
    /\ \A k \in 1..Len(scentime) : <<scentime[k], scencmd[k]>> \in RichPairs

\* a file was merged into a loaded timeline and checkfile released the first
\* of the three entries: the two that remain are still paired
C34_Witness ==
    /\ lastop.op = "checkfile"
    /\ Len(lastop.released) = 1
    /\ Len(scentime) = 2
    /\ Len(scencmd) = 2
    /\ <<scentime[1], scencmd[1]>> \in RichPairs
    /\ scencmd[1] # scencmd[2]

-----------------------------------------------------------------------------
\* C35: every entry of the timeline is released into the queue exactly once,
\* and no later than by the first checkfile call whose time is at or past the
\* entry's trigger time: a checkfile(simt) call removes every entry whose
\* time is at most simt, and the queue grows by one line for each of them
C35_ReleasedWhenDue ==
    [][lastop'.op = "checkfile" =>
          LET due == {k \in 1..Len(scentime) : scentime[k] <= lastop'.simt}
          IN  /\ Len(scentime') = Len(scentime) - Cardinality(due)
              /\ Len(lastop'.released) = Cardinality(due)
              /\ Len(cmdstack') = Len(cmdstack) + Cardinality(due)]_vars

\* checkfile(0) has been called on the timeline of a file whose second line
\* is due at 0 and whose first line is due at 1 s: nothing was released
C35_Witness ==
    /\ lastop.op = "checkfile"
    /\ lastop.simt = 0
    /\ lastop.released = <<>>
    /\ scentime = <<Centi, 0>>

-----------------------------------------------------------------------------
\* C36: a pass of process() in which the handlers append finitely many lines
\* (at most MaxQueue lines are ever queued) terminates: once entered,
\* process() is left
C36_PassTerminates == (pc = "process") ~> (pc = "idle")

\* a pass has dispatched the line a handler appended while it ran and has
\* exhausted the queue
C36_Witness ==
    /\ pc = "process"
    /\ Len(cmdstack) > n0
    /\ ip = Len(cmdstack)
    /\ Len(dispatched) = Len(cmdstack)

-----------------------------------------------------------------------------
\* C37: dispatching HELP, or its alias '?', without an argument echoes the
\* listing of the registered command names, the text help() returns when it
\* is called without a command
C37_BareHelpEchoesListing ==
    (Dispatched /\ typed.cmd \in {"HELP", "?"} /\ Len(typed.args) = 0) =>
        /\ Len(cur.echoed) >= 1
        /\ \E keys \in KeyOrders : cur.echoed[1] = helpAll(keys)

\* 'HELP' has been dispatched: help was called with the empty text and the
\* echo is the message for an unknown command
C37_Witness ==
    /\ Dispatched
    /\ curLine = "HELP"
    /\ Len(cur.called) = 1
    /\ cur.called[1].arglist = <<Text("")>>
    /\ cur.echoed = <<"HELP: Unknown command: ">>

-----------------------------------------------------------------------------
====
